---- MODULE Spec2Model ----
(***************************************************************************)
(* Exam-session lifecycle engine and grading pipeline of the ACAD-AI       *)
(* backend: ExamSession / SessionToken / StudentAnswer / GradeHistory rows, *)
(* the HTTP views that act on them, and the Celery expiry tasks.           *)
(*                                                                         *)
(* Every HTTP request and every Celery task runs on a worker.  A worker    *)
(* holds the model instances it has loaded (loc[w].session is the          *)
(* in-memory ExamSession object) and its position in the handler (pc[w]).  *)
(* One model step is one database statement or one database transaction;   *)
(* the steps of different workers interleave.                              *)
(***************************************************************************)
EXTENDS Integers, Sequences, FiniteSets, TLC

VARIABLES
    now,        \* timezone.now(), in minutes
    sessions,   \* table exam_sessions: sequence of rows, id = index
    tokens,     \* table session_tokens: sequence of rows, token = index
    answers,    \* table student_answers: set of rows
    grades,     \* table grade_history: sequence of rows, id = index
    scheduled,  \* session ids with a pending schedule_session_expiry task
    pc,         \* per worker: position in the handler it runs
    loc,        \* per worker: local variables of the handler
    resp,       \* per worker: the response the handler produced
    exams,      \* table exams: per exam id, the fields an admin edits
    questions,  \* table questions: sequence of rows, id = index
    conns,      \* per WebSocket connection: the consumer's state
    error_log,  \* session ids of the 'Grading failed for session' log records
    grader      \* a grading service at work: its call, attempts and result

vars == <<now, sessions, tokens, answers, grades, scheduled, pc, loc, resp,
          exams, questions, conns, error_log, grader>>

---------------------------------------------------------------------------
\* Bounds of the model

MaxTime == 2
MaxTokens == 2
MaxGrades == 3
DurationMinutes == 1
MaxQuestions == 3
MaxEvents == 2
MaxPoints == 2
MaxAnswers == 2

Workers == {"w1", "w2"}
Students == {1, 2}
ExamIds == {1, 2}
ActiveExams == {1}
OrderInputs == {1, 2}
AnswerTexts == {"", "x", "a", "z", "[]", "[a]", "[a,a]", "[a,b]", "[a,z]"}
Titles == {"t0", "t1"}
Conns == {"c1"}
TokenInputs == 1..MaxTokens
GradingMethods == {"auto", "manual", "timeout", "expired"}

---------------------------------------------------------------------------
\* Rows and in-memory objects

NoSession ==
    [id |-> 0, student |-> 0, exam |-> 0, expires_at |-> 0,
     is_completed |-> FALSE, submitted_at |-> -1, submission_type |-> "NULL",
     current_question_order |-> 1]

NewSession(id, student, exam) ==
    [id |-> id, student |-> student, exam |-> exam,
     expires_at |-> now + DurationMinutes,
     is_completed |-> FALSE, submitted_at |-> -1, submission_type |-> "NULL",
     current_question_order |-> 1]

\* A response: HTTP status, the envelope's message, and the token, the
\* grade_history_id (0: none) or the saved_answer ("None": none) its data carries
NoResponse ==
    [status |-> 0, message |-> "", token |-> 0, grade |-> 0, saved_answer |-> "None"]

Response(status, message, token, grade) ==
    [status |-> status, message |-> message, token |-> token, grade |-> grade,
     saved_answer |-> "None"]

\* No question data posted
NoData ==
    [question_type |-> "none", options |-> {}, allow_multiple |-> FALSE]

IdleLoc ==
    [session |-> NoSession, action |-> "none", meth |-> "none", token |-> 0,
     user |-> 0, order |-> 0, text |-> "", queue |-> <<>>, calls |-> <<>>,
     data |-> NoData]

\* The question every exam of the initial state has
FirstQuestion(exam_id) ==
    [exam |-> exam_id, order |-> 1, question_type |-> "SHORT_ANSWER",
     options |-> {}, allow_multiple |-> FALSE, question_text |-> "t0",
     deleted |-> FALSE]

\* What an admin may post as a question: type, option values, allow_multiple
QuestionInputs ==
    {[question_type |-> "SHORT_ANSWER", options |-> {}, allow_multiple |-> FALSE],
     [question_type |-> "MULTIPLE_CHOICE", options |-> {"a", "b"},
      allow_multiple |-> FALSE],
     [question_type |-> "MULTIPLE_CHOICE", options |-> {"a", "b"},
      allow_multiple |-> TRUE]}

SessionIds == 1..Len(sessions)
QuestionIds == {i \in 1..Len(questions) : ~questions[i].deleted}
TokenIds == 1..Len(tokens)
GradeIds == 1..Len(grades)

SetMax(S) == CHOOSE x \in S : \A y \in S : y <= x

---------------------------------------------------------------------------
\* ExamSession and ExamSessionService helpers

is_expired(session) == now > session.expires_at

get_active_session(student, exam_id) ==
    LET found == {i \in SessionIds :
                    sessions[i].student = student /\ sessions[i].exam = exam_id}
    IN  IF found = {} THEN NoSession ELSE sessions[CHOOSE i \in found : TRUE]

ValidTokens(sid) ==
    {t \in TokenIds : tokens[t].session = sid /\ tokens[t].is_valid}

GradesOf(sid) == {g \in GradeIds : grades[g].session_id = sid}

AnswersOf(sid) == {a \in answers : a.session = sid}

\* exam.questions
QuestionsOf(exam_id) == {i \in QuestionIds : questions[i].exam = exam_id}

QuestionOrders(exam_id) == {questions[i].order : i \in QuestionsOf(exam_id)}

\* Question.objects.get(exam=exam, order=order): the id, or 0 for DoesNotExist
get_question(exam_id, order) ==
    LET found == {i \in QuestionsOf(exam_id) : questions[i].order = order}
    IN  IF found = {} THEN 0 ELSE CHOOSE i \in found : TRUE

\* Exam.has_active_sessions
has_active_sessions(exam_id) ==
    \E i \in SessionIds :
        /\ sessions[i].exam = exam_id
        /\ ~sessions[i].is_completed
        /\ sessions[i].expires_at > now

\* Exam.has_submissions: a Submission row is written by every grade_session
\* transaction that commits a GradeHistory
has_submissions(exam_id) ==
    \E g \in GradeIds : sessions[grades[g].session_id].exam = exam_id

\* create_new_token with the invalidating update left out
create_new_token_keep(toks, sid) == toks

\* self.tokens.filter(is_valid=True).update(is_valid=False, ...) in create_new_token
create_new_token_invalidate(toks, sid) ==
    [t \in 1..Len(toks) |->
        IF toks[t].session = sid THEN [toks[t] EXCEPT !.is_valid = FALSE]
        ELSE toks[t]]

\* self.tokens.filter(is_valid=True).update(is_valid=False, ...) in mark_completed
mark_completed_invalidate(toks, sid) ==
    [t \in 1..Len(toks) |->
        IF toks[t].session = sid THEN [toks[t] EXCEPT !.is_valid = FALSE]
        ELSE toks[t]]

\* The in-memory object after mark_completed set its fields
mark_completed(session, submission_type) ==
    [session EXCEPT !.is_completed = TRUE,
                    !.submitted_at = now,
                    !.submission_type = submission_type]

\* validate_token with the ownership check left out
validate_token_any_user(token, student) ==
    IF token \notin TokenIds THEN "Invalid session token."
    ELSE LET session == sessions[tokens[token].session] IN
         IF ~tokens[token].is_valid THEN "Session token has expired."
         ELSE IF session.is_completed
              THEN "This exam session has already been completed."
         ELSE IF is_expired(session) THEN "This exam session has expired."
         ELSE "ok"

\* ExamSessionService.validate_token: "ok" or the message of the ValueError
validate_token(token, student) ==
    IF token \notin TokenIds THEN "Invalid session token."
    ELSE LET session == sessions[tokens[token].session] IN
         IF session.student # student THEN "Session does not belong to this user."
         ELSE IF ~tokens[token].is_valid THEN "Session token has expired."
         ELSE IF session.is_completed
              THEN "This exam session has already been completed."
         ELSE IF is_expired(session) THEN "This exam session has expired."
         ELSE "ok"

\* ExamSessionService.check_token_validity: "ok" or the reason
check_token_validity(token) ==
    IF token \notin TokenIds THEN "invalid_token"
    ELSE IF ~tokens[token].is_valid THEN "token_expired"
    ELSE IF sessions[tokens[token].session].is_completed THEN "session_completed"
    ELSE IF is_expired(sessions[tokens[token].session]) THEN "session_timeout"
    ELSE "ok"

---------------------------------------------------------------------------
\* WebSocket connections (ExamSessionConsumer) and the channel layer

\* A message the server sends over a connection
Event(type, reason, grade_history_id) ==
    [type |-> type, reason |-> reason, grade_history_id |-> grade_history_id]

NoConn ==
    [state |-> "none", token |-> 0, user |-> 0, subscribed |-> FALSE,
     code |-> 0, sent |-> <<>>]

\* ExamSessionConsumer._get_event_for_reason
get_event_for_reason(reason) ==
    IF reason = "token_expired" THEN "session_expired"
    ELSE IF reason = "invalid_token" THEN "session_expired"
    ELSE IF reason = "session_completed" THEN "session_completed"
    ELSE IF reason = "session_timeout" THEN "session_completed"
    ELSE "session_expired"

\* channel_layer.group_send to the groups of the given tokens: the handler of
\* every subscribed consumer (session_expired / session_completed) sends the
\* event on to its client
group_send(cs, topics, event) ==
    [c \in Conns |->
        IF cs[c].subscribed /\ cs[c].token \in topics
        THEN [cs[c] EXCEPT !.sent = Append(@, event)]
        ELSE cs[c]]

\* The events create_new_token and the completion paths publish
TokenExpiredEvent == Event("session_expired", "token_expired", 0)
TimeoutEvent == Event("session_completed", "timeout", 0)
SubmittedEvent(grade_history_id) ==
    Event("session_completed", "submitted", grade_history_id)

\* Every connection can take one more event (bounds the sent sequences)
EventsRoom == \A c \in Conns : Len(conns[c].sent) < MaxEvents

---------------------------------------------------------------------------
\* AnswerService.normalize_answer

\* json.loads(answer_text): the list it decodes to, list = FALSE when the text
\* is no JSON array (JSONDecodeError, or a JSON value that is not a list)
json_loads(text) ==
    IF text = "[]" THEN [list |-> TRUE, items |-> <<>>]
    ELSE IF text = "[a]" THEN [list |-> TRUE, items |-> <<"a">>]
    ELSE IF text = "[b]" THEN [list |-> TRUE, items |-> <<"b">>]
    ELSE IF text \in {"[a,a]", "[a, a]"} THEN [list |-> TRUE, items |-> <<"a", "a">>]
    ELSE IF text \in {"[a,b]", "[a, b]"} THEN [list |-> TRUE, items |-> <<"a", "b">>]
    ELSE IF text \in {"[a,z]", "[a, z]"} THEN [list |-> TRUE, items |-> <<"a", "z">>]
    ELSE IF text = "[a, b, c]" THEN [list |-> TRUE, items |-> <<"a", "b", "c">>]
    ELSE IF text = "[a, b, z]" THEN [list |-> TRUE, items |-> <<"a", "b", "z">>]
    ELSE [list |-> FALSE, items |-> <<>>]

\* json.dumps(answers) of a list of two values: separators are ", "
json_dumps(items) == "[" \o items[1] \o ", " \o items[2] \o "]"

\* normalize_answer with the option check left out
normalize_answer_any_value(question, answer_text) ==
    IF question.question_type = "MULTIPLE_CHOICE"
    THEN LET decoded == json_loads(answer_text)
             answers_ == IF decoded.list THEN decoded.items ELSE <<answer_text>>
         IN  IF ~question.allow_multiple /\ Len(answers_) > 1
             THEN [ok |-> FALSE, text |-> "only allows a single answer"]
             ELSE IF question.allow_multiple /\ Len(answers_) > 1
             THEN [ok |-> TRUE, text |-> json_dumps(answers_)]
             ELSE [ok |-> TRUE,
                   text |-> IF Len(answers_) > 0 THEN answers_[1] ELSE answer_text]
    ELSE [ok |-> TRUE, text |-> answer_text]

\* ok and the text to store, or the SubmissionValidationError raised
normalize_answer(question, answer_text) ==
    IF question.question_type = "MULTIPLE_CHOICE"
    THEN LET decoded == json_loads(answer_text)
             answers_ == IF decoded.list THEN decoded.items ELSE <<answer_text>>
         IN  IF \E k \in 1..Len(answers_) : answers_[k] \notin question.options
             THEN [ok |-> FALSE, text |-> "Invalid answer"]
             ELSE IF ~question.allow_multiple /\ Len(answers_) > 1
             THEN [ok |-> FALSE, text |-> "only allows a single answer"]
             ELSE IF question.allow_multiple /\ Len(answers_) > 1
             THEN [ok |-> TRUE, text |-> json_dumps(answers_)]
             ELSE [ok |-> TRUE,
                   text |-> IF Len(answers_) > 0 THEN answers_[1] ELSE answer_text]
    ELSE [ok |-> TRUE, text |-> answer_text]

---------------------------------------------------------------------------
\* GradingService.grade_session: one database transaction.  The result holds
\* the tables after the commit (or unchanged after a rollback: the exception
\* leaves the atomic block, so the GradeHistory row saved as FAILED goes with
\* it), the id of the returned GradeHistory, whether GradingError was raised,
\* the in-memory session object afterwards, and the error log.

SubmissionTypeFor(grading_method) ==
    IF grading_method = "expired" THEN "AUTO_EXPIRED" ELSE "MANUAL"

grade_session(session, grading_method, fails) ==
    LET unchanged == [sessions |-> sessions, tokens |-> tokens, grades |-> grades,
                      session |-> session, result |-> 0, raised |-> FALSE,
                      error_log |-> error_log]
        existing == GradesOf(session.id)
    IN  IF session.is_completed /\ grading_method # "expired" /\ existing # {}
        THEN [unchanged EXCEPT !.result = SetMax(existing)]
        ELSE IF fails
        THEN [unchanged EXCEPT !.raised = TRUE,
                               !.error_log = error_log \cup {session.id}]
        ELSE LET row == [session_id |-> session.id,
                         grading_method |-> grading_method,
                         status |-> "COMPLETED"]
                 done == mark_completed(session, SubmissionTypeFor(grading_method))
             IN  IF session.is_completed
                 THEN [unchanged EXCEPT !.grades = Append(grades, row),
                                        !.result = Len(grades) + 1]
                 ELSE [sessions |-> [sessions EXCEPT ![session.id] = done],
                       tokens |-> mark_completed_invalidate(tokens, session.id),
                       grades |-> Append(grades, row),
                       session |-> done,
                       result |-> Len(grades) + 1,
                       raised |-> FALSE,
                       error_log |-> error_log]

---------------------------------------------------------------------------
\* Grading services (apps/grading/services/graders).  Scores are counted in
\* hundredths of a point, so round(x, 2) is a rounding to an integer.  A
\* rational number is a record [num, den] with den > 0.

\* An answer of a submission with the fields of its question
GradedAnswer(answer_text, question_type, allow_multiple, expected_answer, points) ==
    [answer_text |-> answer_text, question_type |-> question_type,
     allow_multiple |-> allow_multiple, expected_answer |-> expected_answer,
     points |-> points]

QuestionPoints == 1..MaxPoints

\* Answers to multiple-choice questions with several expected values
MultiSelectAnswers ==
    {GradedAnswer(text, "MULTIPLE_CHOICE", TRUE, expected, points) :
        text \in {"a", "z", "[]", "[a]", "[a, a]", "[a, b]", "[a, z]", "[a, b, z]"},
        expected \in {"[]", "[a]", "[a, b]", "[a, b, c]"},
        points \in QuestionPoints}

\* Answers to multiple-choice questions with one expected value
SingleChoiceAnswers ==
    {GradedAnswer(text, "MULTIPLE_CHOICE", FALSE, "a", points) :
        text \in {"a", "b"}, points \in QuestionPoints}

\* Answers to questions graded by their text
TextAnswers ==
    {GradedAnswer(text, "SHORT_ANSWER", FALSE, expected, points) :
        text \in {"", " ", "go", "the cell", "Cell wall."},
        expected \in {"the", "cell wall"},
        points \in QuestionPoints}

AnswerInputs == MultiSelectAnswers \cup SingleChoiceAnswers \cup TextAnswers

\* The values the TF-IDF cosine similarity of two texts may take, in hundredths
SimilarityInputs == {0, 20, 50, 100}

\* What one chat completion call may give: an API error, or a content that is a
\* JSON object with a score (in thousandths of a point) and a feedback, a JSON
\* array, or a text of the form 'SCORE: <number> FEEDBACK: <text>'
Reply(kind, score) == [kind |-> kind, score |-> score]

LlmReplies(points) ==
    {Reply("api_error", 0), Reply("list", 0)}
        \cup {Reply("json", score) :
                score \in {-1000, 0, points * 1000 - 266, points * 1000,
                           points * 1000 + 1000}}
        \cup {Reply("text", score) : score \in {0, points * 1000 + 1000}}

NoReply == Reply("none", 0)

\* The result of grading one answer: the score and the feedback, and with them
\* the completion calls made for it, the last thing the grader was given from
\* outside (a reply or a similarity), and whether grade_answer raised
\* GradingError
GradingResult(score, feedback) ==
    [score |-> score, feedback |-> feedback, calls |-> 0, reply |-> NoReply,
     raised |-> FALSE]

NoGrader ==
    [service |-> "none", state |-> "idle", submission |-> <<>>, results |-> <<>>,
     attempt |-> 1, status |-> "PENDING", total_score |-> 0]

ToSet(seq) == {seq[k] : k \in 1..Len(seq)}

Max(a, b) == IF a >= b THEN a ELSE b
Min(a, b) == IF a <= b THEN a ELSE b

\* round(num / den, 2) in hundredths, for num >= 0: the nearest integer to
\* 100 * num / den, a tie going to the even one
Round2(num, den) ==
    LET q == (100 * num) \div den
        r == (100 * num) % den
    IN  IF 2 * r > den THEN q + 1
        ELSE IF 2 * r < den THEN q
        ELSE IF q % 2 = 0 THEN q ELSE q + 1

\* _grade_multiple_choice without the penalty for wrong selections
grade_multiple_choice_no_penalty(answer_text, expected_answer, max_points, allow_multiple) ==
    LET decoded == json_loads(answer_text)
        student_answers == IF allow_multiple /\ decoded.list
                           THEN decoded.items ELSE <<answer_text>>
        expected == json_loads(expected_answer)
        expected_answers == IF allow_multiple /\ expected.list
                            THEN expected.items ELSE <<expected_answer>>
        student_set == ToSet(student_answers)
        expected_set == ToSet(expected_answers)
        correct_selected == Cardinality(student_set \cap expected_set)
        total_expected == Cardinality(expected_set)
    IN  IF allow_multiple
        THEN IF total_expected = 0
             THEN GradingResult(0, "No correct answer defined.")
             ELSE LET final_score == Round2(correct_selected * max_points,
                                            total_expected)
                  IN  GradingResult(final_score,
                        IF final_score = 100 * max_points
                        THEN "All correct answers selected."
                        ELSE IF correct_selected > 0
                        THEN ToString(correct_selected) \o " out of "
                                 \o ToString(total_expected)
                                 \o " correct answers selected."
                        ELSE "Incorrect answer(s) selected.")
        ELSE IF student_set = expected_set
        THEN GradingResult(100 * max_points, "Correct answer selected.")
        ELSE GradingResult(0, "Incorrect answer selected.")

\* BaseGradingService._grade_multiple_choice
grade_multiple_choice(answer_text, expected_answer, max_points, allow_multiple) ==
    LET decoded == json_loads(answer_text)
        student_answers == IF allow_multiple /\ decoded.list
                           THEN decoded.items ELSE <<answer_text>>
        expected == json_loads(expected_answer)
        expected_answers == IF allow_multiple /\ expected.list
                            THEN expected.items ELSE <<expected_answer>>
        student_set == ToSet(student_answers)
        expected_set == ToSet(expected_answers)
        correct_selected == Cardinality(student_set \cap expected_set)
        incorrect_selected == Cardinality(student_set \ expected_set)
        total_expected == Cardinality(expected_set)
    IN  IF allow_multiple
        THEN IF total_expected = 0
             THEN GradingResult(0, "No correct answer defined.")
             ELSE LET correct_score == correct_selected * max_points
                      penalty == IF incorrect_selected > 0
                                 THEN incorrect_selected * max_points ELSE 0
                      final_score == Round2(Max(0, correct_score - penalty),
                                            total_expected)
                  IN  GradingResult(final_score,
                        IF final_score = 100 * max_points
                        THEN "All correct answers selected."
                        ELSE IF correct_selected > 0
                        THEN ToString(correct_selected) \o " out of "
                                 \o ToString(total_expected)
                                 \o " correct answers selected."
                        ELSE "Incorrect answer(s) selected.")
        ELSE IF student_set = expected_set
        THEN GradingResult(100 * max_points, "Correct answer selected.")
        ELSE GradingResult(0, "Incorrect answer selected.")

\* not answer_text or not answer_text.strip()
is_blank(text) == text \in {"", " "}

\* MockGradingService._normalize_text: lower case, punctuation removed
normalize_text(text) ==
    IF text = "Cell wall." THEN "cell wall"
    ELSE IF text = " " THEN ""
    ELSE text

\* str.split of a normalized text
split(text) ==
    IF text = "the cell" THEN {"the", "cell"}
    ELSE IF text = "cell wall" THEN {"cell", "wall"}
    ELSE IF text = "" THEN {}
    ELSE {text}

stop_words ==
    {"the", "a", "an", "and", "or", "but", "in", "on", "at", "to", "for", "of",
     "with", "by"}

\* MockGradingService._extract_keywords
extract_keywords(text) ==
    {word \in split(normalize_text(text)) : Len(word) > 2 /\ word \notin stop_words}

\* MockGradingService._calculate_keyword_score, a rational number
calculate_keyword_score(answer_text, expected_answer) ==
    LET answer_keywords == extract_keywords(answer_text)
        expected_keywords == extract_keywords(expected_answer)
    IN  IF expected_keywords = {}
        THEN [num |-> 0, den |-> 1]
        ELSE [num |-> Min(Cardinality(answer_keywords \cap expected_keywords),
                          Cardinality(expected_keywords)),
              den |-> Cardinality(expected_keywords)]

\* MockGradingService._calculate_similarity_score in hundredths; similarity is
\* what TfidfVectorizer and cosine_similarity give for the two texts
calculate_similarity_score(answer_text, expected_answer, similarity) ==
    IF is_blank(answer_text) \/ is_blank(expected_answer) THEN 0 ELSE similarity

\* The weights and the threshold of MockGradingService, in tenths
keyword_weight == 4
similarity_weight == 6
similarity_threshold == 3

\* keyword_weight * keyword_score + similarity_weight * similarity_score, a
\* rational number
combined_score(answer_text, expected_answer, similarity) ==
    LET keyword_score == calculate_keyword_score(answer_text, expected_answer)
        similarity_score ==
            calculate_similarity_score(answer_text, expected_answer, similarity)
    IN  [num |-> keyword_weight * 100 * keyword_score.num
                    + similarity_weight * similarity_score * keyword_score.den,
         den |-> 1000 * keyword_score.den]

\* combined < bound / 10
Below(combined, bound) == 10 * combined.num < bound * combined.den

\* MockGradingService._generate_feedback
generate_feedback(combined) ==
    IF ~Below(combined, 8)
    THEN "Excellent answer with strong keyword coverage and high similarity."
    ELSE IF ~Below(combined, 6) THEN "Good answer with adequate keyword coverage."
    ELSE IF ~Below(combined, 4) THEN "Fair answer with some relevant keywords."
    ELSE IF ~Below(combined, 2) THEN "Weak answer with minimal keyword coverage."
    ELSE "Answer does not meet the expected criteria."

\* MockGradingService.grade_answer without the threshold
mock_grade_answer_no_threshold(answer, similarity) ==
    IF is_blank(answer.answer_text)
    THEN GradingResult(0, "No answer provided.")
    ELSE IF answer.question_type = "MULTIPLE_CHOICE"
    THEN grade_multiple_choice(answer.answer_text, answer.expected_answer,
                               answer.points, answer.allow_multiple)
    ELSE LET combined == combined_score(answer.answer_text, answer.expected_answer,
                                        similarity)
         IN  GradingResult(Round2(combined.num * answer.points, combined.den),
                           generate_feedback(combined))

\* MockGradingService.grade_answer
mock_grade_answer(answer, similarity) ==
    IF is_blank(answer.answer_text)
    THEN GradingResult(0, "No answer provided.")
    ELSE IF answer.question_type = "MULTIPLE_CHOICE"
    THEN grade_multiple_choice(answer.answer_text, answer.expected_answer,
                               answer.points, answer.allow_multiple)
    ELSE LET raw == combined_score(answer.answer_text, answer.expected_answer,
                                   similarity)
             combined == IF Below(raw, similarity_threshold)
                         THEN [num |-> 0, den |-> 1] ELSE raw
         IN  GradingResult(Round2(combined.num * answer.points, combined.den),
                           generate_feedback(combined))

\* LLMGradingService.max_retries
max_retries == 3

\* LLMGradingService._validate_llm_response
validate_llm_response(reply, max_points) ==
    /\ reply.kind = "json"
    /\ reply.score >= 0
    /\ reply.score <= 1000 * max_points

\* LLMGradingService._parse_llm_response without the clamp of the score
parse_llm_response_unclamped(reply, max_points) ==
    GradingResult(Round2(reply.score, 1000), "feedback")

\* LLMGradingService._parse_llm_response of a JSON object or of a text (the
\* text fallback reads [\d.]+ after 'SCORE:'); a JSON array makes it raise
parse_llm_response(reply, max_points) ==
    GradingResult(Round2(Max(0, Min(reply.score, 1000 * max_points)), 1000),
                  "feedback")

\* The feedback grade_submission records for an answer whose grading raised
GradingErrorFeedback == "Grading error: LLM grading failed after 3 attempts"

\* LLMGradingService.grade_submission, the except branch, recording the answer
\* as graded without the error
grading_error_result_unmarked(calls, reply) ==
    [GradingResult(0, "Grading completed.") EXCEPT !.calls = calls, !.reply = reply]

\* LLMGradingService.grade_submission, the except branch: what is recorded for
\* an answer whose grade_answer raised
grading_error_result(calls, reply) ==
    [GradingResult(0, GradingErrorFeedback) EXCEPT
        !.calls = calls, !.reply = reply, !.raised = TRUE]

RECURSIVE SumScores(_)
SumScores(results) ==
    IF results = <<>> THEN 0 ELSE Head(results).score + SumScores(Tail(results))

---------------------------------------------------------------------------
Init ==
    /\ now = 0
    /\ sessions = <<>>
    /\ tokens = <<>>
    /\ answers = {}
    /\ grades = <<>>
    /\ scheduled = {}
    /\ pc = [w \in Workers |-> "idle"]
    /\ loc = [w \in Workers |-> IdleLoc]
    /\ resp = [w \in Workers |-> NoResponse]
    /\ exams = [e \in ExamIds |-> [title |-> "t0"]]
    /\ questions = <<FirstQuestion(1)>>
    /\ conns = [c \in Conns |-> NoConn]
    /\ error_log = {}
    /\ grader = NoGrader

\* The handler ends with response r; its local objects are dropped
Finish(w, r) ==
    /\ pc' = [pc EXCEPT ![w] = "done"]
    /\ loc' = [loc EXCEPT ![w] = IdleLoc]
    /\ resp' = [resp EXCEPT ![w] = r]

\* The clock advances
Tick ==
    /\ now < MaxTime
    /\ now' = now + 1
    /\ UNCHANGED <<sessions, tokens, answers, grades, scheduled, pc, loc, resp,
                   exams, questions, conns,
                   error_log, grader>>

\* The worker hands its response back and is free again
Return(w) ==
    /\ pc[w] = "done"
    /\ pc' = [pc EXCEPT ![w] = "idle"]
    /\ loc' = [loc EXCEPT ![w] = IdleLoc]
    /\ resp' = [resp EXCEPT ![w] = NoResponse]
    /\ UNCHANGED <<now, sessions, tokens, answers, grades, scheduled,
                   exams, questions, conns,
                   error_log, grader>>

---------------------------------------------------------------------------
\* POST /exams/{id}/start: ExamSessionService.start_or_continue_session

StartsInFlight ==
    Cardinality({w \in Workers :
                    pc[w] \in {"session_create", "token_invalidate", "token_insert"}})

\* start_or_continue_session creating the session before it looks at the exam
StartLoad_create_first(w, student, exam_id) ==
    /\ pc[w] = "idle"
    /\ Len(tokens) + StartsInFlight < MaxTokens
    /\ LET session == get_active_session(student, exam_id) IN
       IF exam_id \notin ActiveExams
       THEN /\ Finish(w, Response(404, "Exam not found or is not active.", 0, 0))
            /\ sessions' = IF session.id = 0
                           THEN Append(sessions,
                                       NewSession(Len(sessions) + 1, student, exam_id))
                           ELSE sessions
       ELSE IF session.id # 0 /\ session.is_completed
       THEN /\ Finish(w, Response(400, "You have already completed this exam.", 0, 0))
            /\ UNCHANGED sessions
       ELSE IF session.id # 0
       THEN /\ pc' = [pc EXCEPT ![w] = "token_invalidate"]
            /\ loc' = [loc EXCEPT ![w] = [IdleLoc EXCEPT !.session = session,
                                                         !.user = student,
                                                         !.action = "continued"]]
            /\ UNCHANGED <<resp, sessions>>
       ELSE /\ pc' = [pc EXCEPT ![w] = "session_create"]
            /\ loc' = [loc EXCEPT ![w] = [IdleLoc EXCEPT !.user = student,
                                                         !.order = exam_id,
                                                         !.action = "started"]]
            /\ UNCHANGED <<resp, sessions>>
    /\ UNCHANGED <<now, tokens, answers, grades, scheduled,
                   exams, questions, conns,
                   error_log, grader>>

\* Exam lookup and get_active_session
StartLoad(w, student, exam_id) ==
    /\ pc[w] = "idle"
    /\ Len(tokens) + StartsInFlight < MaxTokens
    /\ LET session == get_active_session(student, exam_id) IN
       IF exam_id \notin ActiveExams
       THEN /\ Finish(w, Response(404, "Exam not found or is not active.", 0, 0))
       ELSE IF session.id # 0 /\ session.is_completed
       THEN /\ Finish(w, Response(400, "You have already completed this exam.", 0, 0))
       ELSE IF session.id # 0
       THEN /\ pc' = [pc EXCEPT ![w] = "token_invalidate"]
            /\ loc' = [loc EXCEPT ![w] = [IdleLoc EXCEPT !.session = session,
                                                         !.user = student,
                                                         !.action = "continued"]]
            /\ UNCHANGED resp
       ELSE /\ pc' = [pc EXCEPT ![w] = "session_create"]
            /\ loc' = [loc EXCEPT ![w] = [IdleLoc EXCEPT !.user = student,
                                                         !.order = exam_id,
                                                         !.action = "started"]]
            /\ UNCHANGED resp
    /\ UNCHANGED <<now, sessions, tokens, answers, grades, scheduled,
                   exams, questions, conns,
                   error_log, grader>>

\* ExamSession.objects.create(student=student, exam=exam); the unique
\* constraint on (student, exam) makes a duplicate insert raise IntegrityError
SessionCreate(w) ==
    /\ pc[w] = "session_create"
    /\ LET student == loc[w].user
           exam_id == loc[w].order
           row == NewSession(Len(sessions) + 1, student, exam_id)
       IN  IF get_active_session(student, exam_id).id # 0
           THEN /\ Finish(w, Response(500, "IntegrityError", 0, 0))
                /\ UNCHANGED sessions
           ELSE /\ sessions' = Append(sessions, row)
                /\ pc' = [pc EXCEPT ![w] = "token_invalidate"]
                /\ loc' = [loc EXCEPT ![w].session = row]
                /\ UNCHANGED resp
    /\ UNCHANGED <<now, tokens, answers, grades, scheduled, exams, questions, conns,
                   error_log, grader>>

\* create_new_token: read the valid tokens of the session, invalidate them, and
\* send session_expired to the group of each of them
TokenInvalidate(w) ==
    /\ pc[w] = "token_invalidate"
    /\ tokens' = create_new_token_invalidate(tokens, loc[w].session.id)
    /\ conns' = group_send(conns, ValidTokens(loc[w].session.id), TokenExpiredEvent)
    /\ pc' = [pc EXCEPT ![w] = "token_insert"]
    /\ UNCHANGED <<now, sessions, answers, grades, scheduled, loc, resp,
                   exams, questions,
                   error_log, grader>>

\* create_new_token: SessionToken.objects.create(session=self), and for a new
\* session _schedule_expiry_task.  enqueued tells whether apply_async put the
\* task on the queue; when it raises, the exception is logged and the call goes
\* on.
TokenInsertEnqueue(w, enqueued) ==
    /\ pc[w] = "token_insert"
    /\ tokens' = Append(tokens, [session |-> loc[w].session.id, is_valid |-> TRUE])
    /\ scheduled' = IF loc[w].action = "started" /\ enqueued
                    THEN scheduled \cup {loc[w].session.id}
                    ELSE scheduled
    /\ Finish(w, Response(IF loc[w].action = "started" THEN 201 ELSE 200,
                          IF loc[w].action = "started" THEN "Exam session started"
                          ELSE "Session continued with new token",
                          Len(tokens) + 1, 0))
    /\ UNCHANGED <<now, sessions, answers, grades, exams, questions, conns,
                   error_log, grader>>

\* The same with a task queue that takes the task
TokenInsert(w) == TokenInsertEnqueue(w, TRUE)

---------------------------------------------------------------------------
\* The token-keyed session views: each validates the token first

Views == {"question", "answer", "progress", "submit"}

ValidateToken(w, view, token, student, order, text) ==
    /\ pc[w] = "idle"
    /\ LET r == validate_token(token, student) IN
       IF r # "ok"
       THEN /\ pc' = [pc EXCEPT ![w] = "done"]
            /\ loc' = [loc EXCEPT ![w] = [IdleLoc EXCEPT !.action = "token_rejected"]]
            /\ resp' = [resp EXCEPT ![w] = Response(400, r, 0, 0)]
       ELSE /\ pc' = [pc EXCEPT ![w] = view]
            /\ loc' = [loc EXCEPT ![w] =
                         [IdleLoc EXCEPT !.session = sessions[tokens[token].session],
                                         !.token = token,
                                         !.user = student,
                                         !.order = order,
                                         !.text = text,
                                         !.meth = IF view = "submit" THEN "manual"
                                                  ELSE "none"]]
            /\ UNCHANGED resp
    /\ UNCHANGED <<now, sessions, tokens, answers, grades, scheduled,
                   exams, questions, conns,
                   error_log, grader>>

\* QuestionService.get_answer_for_question: the text, or "None"
get_answer_for_question(rows, sid, order) ==
    LET found == {a \in rows : a.session = sid /\ a.question \in QuestionIds
                                 /\ questions[a.question].order = order}
    IN  IF found = {} THEN "None" ELSE (CHOOSE a \in found : TRUE).answer_text

\* SessionQuestionView.get after validation: QuestionService.get_question_by_order
\* and get_answer_for_question
QuestionStep(w) ==
    /\ pc[w] = "question"
    /\ LET session == loc[w].session
           order == loc[w].order
       IN  IF session.is_completed
           THEN /\ Finish(w, Response(400,
                              "This exam session has already been completed.", 0, 0))
                /\ UNCHANGED sessions
           ELSE IF is_expired(session)
           THEN /\ Finish(w, Response(400,
                              "This exam session has expired.", 0, 0))
                /\ UNCHANGED sessions
           ELSE IF get_question(session.exam, order) = 0
           THEN /\ Finish(w, Response(400, "Question not found in this exam.", 0, 0))
                /\ UNCHANGED sessions
           ELSE /\ sessions' = [sessions EXCEPT
                                  ![session.id].current_question_order = order]
                /\ Finish(w, [Response(200, "Question retrieved successfully", 0, 0)
                                EXCEPT !.saved_answer =
                                    get_answer_for_question(answers, session.id, order)])
    /\ UNCHANGED <<now, tokens, answers, grades, scheduled, exams, questions, conns,
                   error_log, grader>>

\* update_or_create with the lookup left out: always creates
update_or_create_add(rows, sid, question, answer_text) ==
    rows \cup {[session |-> sid, question |-> question, answer_text |-> answer_text]}

\* StudentAnswer.objects.update_or_create(session, question, defaults)
update_or_create(rows, sid, question, answer_text) ==
    {a \in rows : ~(a.session = sid /\ a.question = question)}
        \cup {[session |-> sid, question |-> question, answer_text |-> answer_text]}

\* SessionAnswerView.post after validation: QuestionService.submit_single_answer
AnswerStep(w) ==
    /\ pc[w] = "answer"
    /\ LET session == loc[w].session
           order == loc[w].order
           text == loc[w].text
           question == get_question(session.exam, order)
       IN  IF text = ""
           THEN /\ Finish(w, Response(400, "Answer text is required.", 0, 0))
                /\ UNCHANGED answers
           ELSE IF session.is_completed
           THEN /\ Finish(w, Response(400,
                              "This exam session has already been completed.", 0, 0))
                /\ UNCHANGED answers
           ELSE IF is_expired(session)
           THEN /\ Finish(w, Response(400,
                              "This exam session has expired.", 0, 0))
                /\ UNCHANGED answers
           ELSE IF question = 0
           THEN /\ Finish(w, Response(400, "Question not found in this exam.", 0, 0))
                /\ UNCHANGED answers
           ELSE LET normalized == normalize_answer(questions[question], text) IN
                IF ~normalized.ok
                THEN /\ Finish(w, Response(400, normalized.text, 0, 0))
                     /\ UNCHANGED answers
                ELSE /\ answers' = update_or_create(answers, session.id, question,
                                                    normalized.text)
                     /\ Finish(w, [Response(200, "Answer submitted successfully", 0, 0)
                                     EXCEPT !.saved_answer = normalized.text])
    /\ UNCHANGED <<now, sessions, tokens, grades, scheduled, exams, questions, conns,
                   error_log, grader>>

\* SessionProgressView.get after validation: a read
ProgressStep(w) ==
    /\ pc[w] = "progress"
    /\ Finish(w, Response(200, "Progress retrieved successfully", 0, 0))
    /\ UNCHANGED <<now, sessions, tokens, answers, grades, scheduled,
                   exams, questions, conns,
                   error_log, grader>>

\* SessionSubmitView.post after validation: grade_session(session, 'manual');
\* a GradingError is answered with 500
SubmitStep(w, fails) ==
    /\ pc[w] = "submit"
    /\ LET r == grade_session(loc[w].session, "manual", fails) IN
       /\ sessions' = r.sessions
       /\ tokens' = r.tokens
       /\ grades' = r.grades
       /\ error_log' = r.error_log
       /\ IF r.raised
          THEN Finish(w, Response(500, "Grading failed", 0, 0))
          ELSE /\ pc' = [pc EXCEPT ![w] = "submit_notify"]
               /\ loc' = [loc EXCEPT ![w].calls = <<r.result>>]
               /\ UNCHANGED resp
    /\ UNCHANGED <<now, answers, scheduled, exams, questions, conns,
                   grader>>

\* SessionSubmitView.post: send session_completed to the group of the request's
\* token, then answer with the grade
SubmitNotify(w) ==
    /\ pc[w] = "submit_notify"
    /\ conns' = group_send(conns, {loc[w].token}, SubmittedEvent(loc[w].calls[1]))
    /\ Finish(w, Response(200, "Exam submitted and graded successfully",
                          0, loc[w].calls[1]))
    /\ UNCHANGED <<now, sessions, tokens, answers, grades, scheduled, exams, questions,
                   error_log, grader>>

---------------------------------------------------------------------------
\* Celery tasks

\* schedule_session_expiry without the test of is_completed
ExpiryTaskLoad_ignoring_completed(w, sid) ==
    /\ pc[w] = "idle"
    /\ sid \in scheduled
    /\ LET session == sessions[sid] IN
       IF ~is_expired(session)
       THEN /\ scheduled' = IF session.expires_at - now > 0
                            THEN scheduled ELSE scheduled \ {sid}
            /\ UNCHANGED <<pc, loc, conns>>
       ELSE /\ scheduled' = scheduled \ {sid}
            /\ conns' = group_send(conns, ValidTokens(sid), TimeoutEvent)
            /\ pc' = [pc EXCEPT ![w] = "expiry_grade"]
            /\ loc' = [loc EXCEPT ![w] = [IdleLoc EXCEPT !.session = session,
                                                         !.meth = "timeout"]]
    /\ UNCHANGED <<now, sessions, tokens, answers, grades, resp, exams, questions,
                   error_log, grader>>

\* schedule_session_expiry(session_id) up to the grading: the session and its
\* valid tokens are read, and grade_expired_session_now sends session_completed
\* to the group of each of these tokens
ExpiryTaskLoad(w, sid) ==
    /\ pc[w] = "idle"
    /\ sid \in scheduled
    /\ LET session == sessions[sid] IN
       IF session.is_completed
       THEN /\ scheduled' = scheduled \ {sid}
            /\ UNCHANGED <<pc, loc, conns>>
       ELSE IF ~is_expired(session)
       THEN /\ scheduled' = IF session.expires_at - now > 0
                            THEN scheduled ELSE scheduled \ {sid}
            /\ UNCHANGED <<pc, loc, conns>>
       ELSE /\ scheduled' = scheduled \ {sid}
            /\ conns' = group_send(conns, ValidTokens(sid), TimeoutEvent)
            /\ pc' = [pc EXCEPT ![w] = "expiry_grade"]
            /\ loc' = [loc EXCEPT ![w] = [IdleLoc EXCEPT !.session = session,
                                                         !.meth = "timeout"]]
    /\ UNCHANGED <<now, sessions, tokens, answers, grades, resp, exams, questions,
                   error_log, grader>>

\* grade_expired_session_now called by schedule_session_expiry: the grading
ExpiryTaskGrade(w, fails) ==
    /\ pc[w] = "expiry_grade"
    /\ LET r == grade_session(loc[w].session, "timeout", fails) IN
       /\ sessions' = r.sessions
       /\ tokens' = r.tokens
       /\ grades' = r.grades
       /\ error_log' = r.error_log
    /\ pc' = [pc EXCEPT ![w] = "idle"]
    /\ loc' = [loc EXCEPT ![w] = IdleLoc]
    /\ UNCHANGED <<now, answers, scheduled, resp, exams, questions, conns,
                   grader>>

\* grade_expired_session(session_id) up to the grading: a task anyone may send
\* for any session id.  It returns at once for a completed session; otherwise
\* the valid tokens are read and grade_expired_session_now sends
\* session_completed to their groups.  ExpiryTaskGrade is the grading.
GradeExpiredSession(w, sid) ==
    /\ pc[w] = "idle"
    /\ sid \in SessionIds
    /\ ~sessions[sid].is_completed
    /\ EventsRoom
    /\ conns' = group_send(conns, ValidTokens(sid), TimeoutEvent)
    /\ pc' = [pc EXCEPT ![w] = "expiry_grade"]
    /\ loc' = [loc EXCEPT ![w] = [IdleLoc EXCEPT !.session = sessions[sid],
                                                 !.meth = "timeout"]]
    /\ UNCHANGED <<now, sessions, tokens, answers, grades, scheduled, resp,
                   exams, questions, error_log, grader>>

\* The rows of ExamSession.objects.filter(is_completed=False,
\* expires_at__lte=now), newest first (Meta.ordering)
RECURSIVE SeqOfDesc(_)
SeqOfDesc(S) ==
    IF S = {} THEN <<>>
    ELSE LET m == SetMax(S) IN <<sessions[m]>> \o SeqOfDesc(S \ {m})

ExpiredSessions ==
    {i \in SessionIds : ~sessions[i].is_completed /\ sessions[i].expires_at <= now}

\* check_expired_sessions: the query
SweepLoad(w) ==
    /\ pc[w] = "idle"
    /\ ExpiredSessions # {}
    /\ EventsRoom
    /\ pc' = [pc EXCEPT ![w] = "sweep"]
    /\ loc' = [loc EXCEPT ![w] = [IdleLoc EXCEPT !.queue = SeqOfDesc(ExpiredSessions),
                                                 !.meth = "timeout"]]
    /\ UNCHANGED <<now, sessions, tokens, answers, grades, scheduled, resp,
                   exams, questions, conns,
                   error_log, grader>>

\* check_expired_sessions, one turn of the loop: the valid tokens of the session
\* are read and grade_expired_session_now sends session_completed to their groups
SweepNotify(w) ==
    /\ pc[w] = "sweep"
    /\ conns' = group_send(conns, ValidTokens(Head(loc[w].queue).id), TimeoutEvent)
    /\ pc' = [pc EXCEPT ![w] = "sweep_grade"]
    /\ UNCHANGED <<now, sessions, tokens, answers, grades, scheduled, loc, resp,
                   exams, questions,
                   error_log, grader>>

\* check_expired_sessions, one turn of the loop: the grading; an exception ends
\* the task
SweepGrade(w, fails) ==
    /\ pc[w] = "sweep_grade"
    /\ LET r == grade_session(Head(loc[w].queue), "timeout", fails)
           rest == Tail(loc[w].queue)
       IN  /\ sessions' = r.sessions
           /\ tokens' = r.tokens
           /\ grades' = r.grades
           /\ error_log' = r.error_log
           /\ IF r.raised \/ rest = <<>>
              THEN /\ pc' = [pc EXCEPT ![w] = "idle"]
                   /\ loc' = [loc EXCEPT ![w] = IdleLoc]
              ELSE /\ pc' = [pc EXCEPT ![w] = "sweep"]
                   /\ loc' = [loc EXCEPT ![w].queue = rest]
    /\ UNCHANGED <<now, answers, scheduled, resp, exams, questions, conns,
                   grader>>

---------------------------------------------------------------------------
\* Admin views: AdminExamViewSet and AdminQuestionViewSet.  loc[w].order holds
\* the exam id or the question id of the request.

\* The guard every modifying admin view evaluates first
modification_blocked(exam_id) ==
    has_active_sessions(exam_id) \/ has_submissions(exam_id)

\* AdminExamViewSet.update / partial_update: get_object and the guard
AdminExamCheck(w, exam_id, title) ==
    /\ pc[w] = "idle"
    /\ IF modification_blocked(exam_id)
       THEN Finish(w, Response(400,
                "Cannot modify an exam that has active sessions or submissions.", 0, 0))
       ELSE /\ pc' = [pc EXCEPT ![w] = "exam_save"]
            /\ loc' = [loc EXCEPT ![w] = [IdleLoc EXCEPT !.order = exam_id,
                                                         !.text = title]]
            /\ UNCHANGED resp
    /\ UNCHANGED <<now, sessions, tokens, answers, grades, scheduled,
                   exams, questions, conns,
                   error_log, grader>>

\* AdminExamViewSet.update: the serializer saves the exam
AdminExamSave(w) ==
    /\ pc[w] = "exam_save"
    /\ exams' = [exams EXCEPT ![loc[w].order].title = loc[w].text]
    /\ Finish(w, Response(200, "Success", 0, 0))
    /\ UNCHANGED <<now, sessions, tokens, answers, grades, scheduled, questions, conns,
                   error_log, grader>>

\* AdminQuestionViewSet.perform_create: the exam lookup and the guard
AdminQuestionCreateCheck(w, exam_id, data) ==
    /\ pc[w] = "idle"
    /\ Len(questions) < MaxQuestions
    /\ IF modification_blocked(exam_id)
       THEN Finish(w, Response(400,
                "Cannot add questions to an exam that has active sessions or submissions.",
                0, 0))
       ELSE /\ pc' = [pc EXCEPT ![w] = "question_max"]
            /\ loc' = [loc EXCEPT ![w] = [IdleLoc EXCEPT !.order = exam_id,
                                                         !.data = data]]
            /\ UNCHANGED resp
    /\ UNCHANGED <<now, sessions, tokens, answers, grades, scheduled,
                   exams, questions, conns,
                   error_log, grader>>

\* AdminQuestionSerializer.create: order = (max order of the exam or 0) + 1
AdminQuestionMax(w) ==
    /\ pc[w] = "question_max"
    /\ LET orders == QuestionOrders(loc[w].order) IN
       loc' = [loc EXCEPT ![w].calls =
                  <<(IF orders = {} THEN 0 ELSE SetMax(orders)) + 1>>]
    /\ pc' = [pc EXCEPT ![w] = "question_insert"]
    /\ UNCHANGED <<now, sessions, tokens, answers, grades, scheduled, resp,
                   exams, questions, conns,
                   error_log, grader>>

\* AdminQuestionSerializer.create: the insert; (exam, order) is unique
AdminQuestionInsert(w) ==
    /\ pc[w] = "question_insert"
    /\ LET exam_id == loc[w].order
           order == loc[w].calls[1]
           row == [exam |-> exam_id, order |-> order,
                   question_type |-> loc[w].data.question_type,
                   options |-> loc[w].data.options,
                   allow_multiple |-> loc[w].data.allow_multiple,
                   question_text |-> "t0", deleted |-> FALSE]
       IN  IF order \in QuestionOrders(exam_id)
           THEN /\ Finish(w, Response(500, "ValidationError", 0, 0))
                /\ UNCHANGED questions
           ELSE /\ questions' = Append(questions, row)
                /\ Finish(w, Response(201, "Success", 0, 0))
    /\ UNCHANGED <<now, sessions, tokens, answers, grades, scheduled, exams, conns,
                   error_log, grader>>

\* AdminQuestionViewSet.update / partial_update: get_object and the guard
AdminQuestionUpdateCheck(w, question, text) ==
    /\ pc[w] = "idle"
    /\ question \in QuestionIds
    /\ IF modification_blocked(questions[question].exam)
       THEN Finish(w, Response(400,
                "Cannot modify questions for an exam that has active sessions or submissions.",
                0, 0))
       ELSE /\ pc' = [pc EXCEPT ![w] = "question_save"]
            /\ loc' = [loc EXCEPT ![w] = [IdleLoc EXCEPT !.order = question,
                                                         !.text = text]]
            /\ UNCHANGED resp
    /\ UNCHANGED <<now, sessions, tokens, answers, grades, scheduled,
                   exams, questions, conns,
                   error_log, grader>>

\* AdminQuestionViewSet.update: the serializer saves the question (order is
\* read-only); a row deleted meanwhile is not written
AdminQuestionSave(w) ==
    /\ pc[w] = "question_save"
    /\ IF loc[w].order \in QuestionIds
       THEN questions' = [questions EXCEPT ![loc[w].order].question_text = loc[w].text]
       ELSE UNCHANGED questions
    /\ Finish(w, Response(200, "Success", 0, 0))
    /\ UNCHANGED <<now, sessions, tokens, answers, grades, scheduled, exams, conns,
                   error_log, grader>>

\* AdminQuestionViewSet.destroy: get_object and the guard
AdminQuestionDeleteCheck(w, question) ==
    /\ pc[w] = "idle"
    /\ question \in QuestionIds
    /\ IF modification_blocked(questions[question].exam)
       THEN Finish(w, Response(400,
                "Cannot delete questions from an exam that has active sessions or submissions.",
                0, 0))
       ELSE /\ pc' = [pc EXCEPT ![w] = "question_delete"]
            /\ loc' = [loc EXCEPT ![w] = [IdleLoc EXCEPT !.order = question]]
            /\ UNCHANGED resp
    /\ UNCHANGED <<now, sessions, tokens, answers, grades, scheduled,
                   exams, questions, conns,
                   error_log, grader>>

\* delete_question_and_reorder with the reordering loop left out
delete_question_keep_order(qs, question) ==
    [i \in 1..Len(qs) |->
        IF i = question THEN [qs[i] EXCEPT !.deleted = TRUE, !.order = 0] ELSE qs[i]]

\* QuestionService.delete_question_and_reorder: the row is deleted and the
\* remaining questions of the exam, taken by ascending order, get 1, 2, ...
delete_question_and_reorder(qs, question) ==
    LET exam_id == qs[question].exam
        remaining == {i \in 1..Len(qs) :
                        i # question /\ ~qs[i].deleted /\ qs[i].exam = exam_id}
        index(i) == Cardinality({j \in remaining :
                        \/ qs[j].order < qs[i].order
                        \/ (qs[j].order = qs[i].order /\ j < i)}) + 1
    IN  [i \in 1..Len(qs) |->
            IF i = question THEN [qs[i] EXCEPT !.deleted = TRUE, !.order = 0]
            ELSE IF i \in remaining THEN [qs[i] EXCEPT !.order = index(i)]
            ELSE qs[i]]

\* AdminQuestionViewSet.destroy: delete_question_and_reorder, one transaction;
\* the StudentAnswer rows of the question go with it (on_delete=CASCADE)
AdminQuestionDelete(w) ==
    /\ pc[w] = "question_delete"
    /\ IF loc[w].order \in QuestionIds
       THEN /\ questions' = delete_question_and_reorder(questions, loc[w].order)
            /\ answers' = {a \in answers : a.question # loc[w].order}
       ELSE UNCHANGED <<questions, answers>>
    /\ Finish(w, Response(200,
                  "Question deleted successfully and remaining questions reordered", 0, 0))
    /\ UNCHANGED <<now, sessions, tokens, grades, scheduled, exams, conns,
                   error_log, grader>>

\* The admin requests a worker may receive are about the exams in exam_ids and
\* post the question data in datas
AdminStep(w, exam_ids, datas) ==
    \/ \E exam_id \in exam_ids, title \in Titles : AdminExamCheck(w, exam_id, title)
    \/ AdminExamSave(w)
    \/ \E exam_id \in exam_ids, data \in datas :
          AdminQuestionCreateCheck(w, exam_id, data)
    \/ AdminQuestionMax(w)
    \/ AdminQuestionInsert(w)
    \/ \E question \in QuestionIds, text \in Titles :
          AdminQuestionUpdateCheck(w, question, text)
    \/ AdminQuestionSave(w)
    \/ \E question \in QuestionIds : AdminQuestionDeleteCheck(w, question)
    \/ AdminQuestionDelete(w)

---------------------------------------------------------------------------
\* ExamSessionConsumer: the WebSocket endpoint ws/exam/<token>/.  user = 0 is a
\* connection without an authenticated user.

WsUsers == Students \cup {0}

\* connect up to the validity check: an unauthenticated connection is closed
\* with 4003; for a token that is not valid the connection is accepted, told
\* the reason and closed with 4001
ConnCheck(c, token, user) ==
    /\ conns[c].state \in {"none", "closed"}
    /\ LET reason == check_token_validity(token)
           conn == [NoConn EXCEPT !.token = token, !.user = user]
       IN  conns' = [conns EXCEPT ![c] =
              IF user = 0
              THEN [conn EXCEPT !.state = "closed", !.code = 4003]
              ELSE IF reason # "ok"
              THEN [conn EXCEPT !.state = "closed", !.code = 4001,
                                !.sent = <<Event(get_event_for_reason(reason),
                                                 reason, 0)>>]
              ELSE [conn EXCEPT !.state = "checking"]]
    /\ UNCHANGED <<now, sessions, tokens, answers, grades, scheduled, pc, loc, resp,
                   exams, questions,
                   error_log, grader>>

\* connect from get_session_data on: a connection of another user is closed
\* with 4003, else the consumer joins the group of the token, accepts and
\* sends 'connected'
ConnSubscribe(c) ==
    /\ conns[c].state = "checking"
    /\ conns' = [conns EXCEPT ![c] =
          IF sessions[tokens[conns[c].token].session].student # conns[c].user
          THEN [@ EXCEPT !.state = "closed", !.code = 4003]
          ELSE [@ EXCEPT !.state = "open", !.subscribed = TRUE,
                         !.sent = <<Event("connected", "none", 0)>>]]
    /\ UNCHANGED <<now, sessions, tokens, answers, grades, scheduled, pc, loc, resp,
                   exams, questions,
                   error_log, grader>>

\* receive of a ping: pong for a valid token, else the event for the reason
ConnPing(c) ==
    /\ conns[c].state = "open"
    /\ Len(conns[c].sent) < MaxEvents
    /\ LET reason == check_token_validity(conns[c].token) IN
       conns' = [conns EXCEPT ![c].sent = Append(@,
          IF reason = "ok" THEN Event("pong", "none", 0)
          ELSE Event(get_event_for_reason(reason), reason, 0))]
    /\ UNCHANGED <<now, sessions, tokens, answers, grades, scheduled, pc, loc, resp,
                   exams, questions,
                   error_log, grader>>

\* The client closes the connection; disconnect leaves the group
ConnDisconnect(c) ==
    /\ conns[c].state = "open"
    /\ conns' = [conns EXCEPT ![c].state = "closed", ![c].code = 1000,
                              ![c].subscribed = FALSE]
    /\ UNCHANGED <<now, sessions, tokens, answers, grades, scheduled, pc, loc, resp,
                   exams, questions,
                   error_log, grader>>

ConnStep(c) ==
    \/ \E token \in TokenInputs, user \in WsUsers : ConnCheck(c, token, user)
    \/ ConnSubscribe(c)
    \/ ConnPing(c)
    \/ ConnDisconnect(c)

---------------------------------------------------------------------------
\* The grading services at work on a submission

\* The answer grade_submission is at
CurrentAnswer == grader.submission[Len(grader.results) + 1]

\* grade_submission(submission) is called on the grading service
GradeSubmission(service, submission) ==
    /\ grader.state = "idle"
    /\ grader' = [NoGrader EXCEPT !.service = service, !.state = "grading",
                                  !.submission = submission]
    /\ UNCHANGED <<now, sessions, tokens, answers, grades, scheduled, pc, loc, resp,
                   exams, questions, conns, error_log>>

\* MockGradingService.grade_submission, one turn of the loop
MockGradeAnswer(similarity) ==
    /\ grader.state = "grading"
    /\ grader.service = "mock"
    /\ Len(grader.results) < Len(grader.submission)
    /\ \/ similarity = 0
       \/ /\ ~is_blank(CurrentAnswer.answer_text)
          /\ CurrentAnswer.question_type # "MULTIPLE_CHOICE"
    /\ grader' = [grader EXCEPT !.results = Append(@,
          [mock_grade_answer(CurrentAnswer, similarity) EXCEPT
              !.reply = Reply("similarity", similarity)])]
    /\ UNCHANGED <<now, sessions, tokens, answers, grades, scheduled, pc, loc, resp,
                   exams, questions, conns, error_log>>

\* LLMGradingService.grade_submission, one turn of the loop for an answer that
\* grade_answer grades without a completion call
LlmGradeDirect ==
    /\ grader.state = "grading"
    /\ grader.service = "llm"
    /\ Len(grader.results) < Len(grader.submission)
    /\ LET answer == CurrentAnswer IN
       /\ is_blank(answer.answer_text) \/ answer.question_type = "MULTIPLE_CHOICE"
       /\ grader' = [grader EXCEPT !.results = Append(@,
             IF is_blank(answer.answer_text)
             THEN GradingResult(0, "No answer provided.")
             ELSE grade_multiple_choice(answer.answer_text, answer.expected_answer,
                                        answer.points, answer.allow_multiple))]
    /\ UNCHANGED <<now, sessions, tokens, answers, grades, scheduled, pc, loc, resp,
                   exams, questions, conns, error_log>>

\* LLMGradingService.grade_answer, one turn of the retry loop: the completion
\* call gives reply.  The turn returns a result, goes on to the next attempt,
\* or raises GradingError, which grade_submission records for the answer.
LlmAttempt(reply) ==
    /\ grader.state = "grading"
    /\ grader.service = "llm"
    /\ Len(grader.results) < Len(grader.submission)
    /\ LET answer == CurrentAnswer
           attempt == grader.attempt
           returned == [parse_llm_response(reply, answer.points) EXCEPT
                           !.calls = attempt, !.reply = reply]
           raised == grading_error_result(attempt, reply)
       IN  /\ ~is_blank(answer.answer_text)
           /\ answer.question_type # "MULTIPLE_CHOICE"
           /\ reply \in LlmReplies(answer.points)
           /\ IF reply.kind # "api_error"
                 /\ validate_llm_response(reply, answer.points)
              THEN grader' = [grader EXCEPT !.results = Append(@, returned),
                                            !.attempt = 1]
              ELSE IF attempt < max_retries
              THEN grader' = [grader EXCEPT !.attempt = attempt + 1]
              ELSE IF reply.kind \in {"api_error", "list"}
              THEN grader' = [grader EXCEPT !.results = Append(@, raised),
                                            !.attempt = 1]
              ELSE grader' = [grader EXCEPT !.results = Append(@, returned),
                                            !.attempt = 1]
    /\ UNCHANGED <<now, sessions, tokens, answers, grades, scheduled, pc, loc, resp,
                   exams, questions, conns, error_log>>

\* grade_submission returns the results, their rounded sum and the status
GradeFinish ==
    /\ grader.state = "grading"
    /\ Len(grader.results) = Len(grader.submission)
    /\ grader' = [grader EXCEPT !.state = "done", !.status = "GRADED",
                                !.total_score = SumScores(grader.results)]
    /\ UNCHANGED <<now, sessions, tokens, answers, grades, scheduled, pc, loc, resp,
                   exams, questions, conns, error_log>>

\* The caller has taken the results
GradeReturn ==
    /\ grader.state = "done"
    /\ grader' = NoGrader
    /\ UNCHANGED <<now, sessions, tokens, answers, grades, scheduled, pc, loc, resp,
                   exams, questions, conns, error_log>>

\* The steps of the LLM grader, and the end of a grade_submission
LlmGraderStep ==
    \/ LlmGradeDirect
    \/ \E points \in QuestionPoints : \E reply \in LlmReplies(points) :
          LlmAttempt(reply)
    \/ GradeFinish
    \/ GradeReturn

---------------------------------------------------------------------------
\* A caller of GradingService.grade_session itself (as the service tests are):
\* it fetches a session and calls grade_session on that object twice, with one
\* grading method.  loc[w].calls holds the GradeHistory ids returned (0: raised).

ApiLoad(w, sid, grading_method) ==
    /\ pc[w] = "idle"
    /\ sid \in SessionIds
    /\ Len(grades) + 2 <= MaxGrades
    /\ pc' = [pc EXCEPT ![w] = "api_grade"]
    /\ loc' = [loc EXCEPT ![w] = [IdleLoc EXCEPT !.session = sessions[sid],
                                                 !.meth = grading_method]]
    /\ UNCHANGED <<now, sessions, tokens, answers, grades, scheduled, resp,
                   exams, questions, conns,
                   error_log, grader>>

ApiGrade(w, fails) ==
    /\ pc[w] = "api_grade"
    /\ Len(loc[w].calls) < 2
    /\ LET r == grade_session(loc[w].session, loc[w].meth, fails) IN
       /\ sessions' = r.sessions
       /\ tokens' = r.tokens
       /\ grades' = r.grades
       /\ error_log' = r.error_log
       /\ loc' = [loc EXCEPT ![w].session = r.session,
                             ![w].calls = Append(@, r.result)]
    /\ UNCHANGED <<now, answers, scheduled, pc, resp, exams, questions, conns,
                   grader>>

ApiReturn(w) ==
    /\ pc[w] = "api_grade"
    /\ Len(loc[w].calls) = 2
    /\ pc' = [pc EXCEPT ![w] = "idle"]
    /\ loc' = [loc EXCEPT ![w] = IdleLoc]
    /\ UNCHANGED <<now, sessions, tokens, answers, grades, scheduled, resp,
                   exams, questions, conns,
                   error_log, grader>>

ApiStep(w) ==
    \/ \E sid \in SessionIds, m \in GradingMethods : ApiLoad(w, sid, m)
    \/ \E fails \in BOOLEAN : ApiGrade(w, fails)
    \/ ApiReturn(w)

---------------------------------------------------------------------------
\* The steps of one worker.  The requests it may receive are drawn from
\* starters (the students who start exams), orders and texts.

WorkerStep(w, starters, orders, texts) ==
    \/ \E student \in starters, exam_id \in ExamIds : StartLoad(w, student, exam_id)
    \/ SessionCreate(w)
    \/ TokenInvalidate(w)
    \/ TokenInsert(w)
    \/ \E view \in Views, token \in TokenInputs, student \in Students :
         \E order \in (IF view \in {"question", "answer"} THEN orders ELSE {0}),
            text \in (IF view = "answer" THEN texts ELSE {""}) :
              ValidateToken(w, view, token, student, order, text)
    \/ QuestionStep(w)
    \/ AnswerStep(w)
    \/ ProgressStep(w)
    \/ \E fails \in BOOLEAN : SubmitStep(w, fails)
    \/ SubmitNotify(w)
    \/ \E sid \in scheduled : ExpiryTaskLoad(w, sid)
    \/ \E fails \in BOOLEAN : ExpiryTaskGrade(w, fails)
    \/ SweepLoad(w)
    \/ SweepNotify(w)
    \/ \E fails \in BOOLEAN : SweepGrade(w, fails)
    \/ Return(w)

OthersIdle(w) == \A v \in Workers \ {w} : pc[v] = "idle"

\* Two workers interleave statement by statement on the session of one student;
\* the other student calls with tokens that are not theirs.
Next ==
    \/ Tick
    \/ \E w \in Workers : WorkerStep(w, {1}, OrderInputs, {"", "x"})

Spec == Init /\ [][Next]_vars

\* A handler that has begun runs to its end
Continue(w) ==
    \/ SessionCreate(w)
    \/ TokenInvalidate(w)
    \/ TokenInsert(w)
    \/ QuestionStep(w)
    \/ AnswerStep(w)
    \/ ProgressStep(w)
    \/ \E fails \in BOOLEAN : SubmitStep(w, fails)
    \/ SubmitNotify(w)
    \/ \E fails \in BOOLEAN : ExpiryTaskGrade(w, fails)
    \/ SweepNotify(w)
    \/ Return(w)

\* Spec with the scheduling the deployment gives: every handler runs to its end,
\* and Celery beat keeps running check_expired_sessions on each worker that is
\* free again and again.  Nothing makes a grading attempt succeed.
SpecFair ==
    /\ Init
    /\ [][Next]_vars
    /\ \A w \in Workers :
          /\ WF_vars(Continue(w))
          /\ SF_vars(SweepLoad(w))
          /\ WF_vars(\E fails \in BOOLEAN : SweepGrade(w, fails))

\* Handlers run one at a time, each to its end; every student starts exams.
NextSeq ==
    \/ Tick
    \/ \E w \in Workers : OthersIdle(w) /\ WorkerStep(w, Students, OrderInputs, {""})

SpecSeq == Init /\ [][NextSeq]_vars

\* As NextSeq for one student, with direct callers of grade_session.
NextApi ==
    \/ Tick
    \/ \E w \in Workers :
         OthersIdle(w) /\ (WorkerStep(w, {1}, {1}, {""}) \/ ApiStep(w))

SpecApi == Init /\ [][NextApi]_vars

\* Admins edit exams and questions while a student starts exam sessions and the
\* sweep completes them; handlers run one at a time.
NextAdmin ==
    \/ Tick
    \/ \E w \in Workers :
         /\ OthersIdle(w)
         /\ \/ \E exam_id \in ExamIds : StartLoad(w, 1, exam_id)
            \/ SessionCreate(w)
            \/ TokenInvalidate(w)
            \/ TokenInsert(w)
            \/ SweepLoad(w)
            \/ SweepNotify(w)
            \/ \E fails \in BOOLEAN : SweepGrade(w, fails)
            \/ Return(w)
            \/ AdminStep(w, ActiveExams,
                         {d \in QuestionInputs : d.question_type = "SHORT_ANSWER"})

SpecAdmin == Init /\ [][NextAdmin]_vars

\* An exam with a short-answer question, a single-select and a multi-select
\* multiple-choice question (orders 1, 2, 3)
ExamQuestions(exam_id) ==
    <<FirstQuestion(exam_id),
      [FirstQuestion(exam_id) EXCEPT !.order = 2,
                                     !.question_type = "MULTIPLE_CHOICE",
                                     !.options = {"a", "b"}],
      [FirstQuestion(exam_id) EXCEPT !.order = 3,
                                     !.question_type = "MULTIPLE_CHOICE",
                                     !.options = {"a", "b"},
                                     !.allow_multiple = TRUE]>>

InitAnswer ==
    /\ now = 0
    /\ sessions = <<>>
    /\ tokens = <<>>
    /\ answers = {}
    /\ grades = <<>>
    /\ scheduled = {}
    /\ pc = [w \in Workers |-> "idle"]
    /\ loc = [w \in Workers |-> IdleLoc]
    /\ resp = [w \in Workers |-> NoResponse]
    /\ exams = [e \in ExamIds |-> [title |-> "t0"]]
    /\ questions = ExamQuestions(1)
    /\ conns = [c \in Conns |-> NoConn]
    /\ error_log = {}
    /\ grader = NoGrader

\* A student starts the exam, fetches questions and submits answers (any text
\* of AnswerTexts to the multiple-choice questions); handlers run one at a time.
NextAnswer ==
    \/ Tick
    \/ \E w \in Workers :
         /\ OthersIdle(w)
         /\ \/ StartLoad(w, 1, 1)
            \/ SessionCreate(w)
            \/ TokenInvalidate(w)
            \/ TokenInsert(w)
            \/ \E token \in TokenInputs, order \in 1..Len(ExamQuestions(1)) :
                  \/ ValidateToken(w, "question", token, 1, order, "")
                  \/ \E text \in (IF order = 1 THEN {"", "x"} ELSE AnswerTexts) :
                        ValidateToken(w, "answer", token, 1, order, text)
            \/ QuestionStep(w)
            \/ AnswerStep(w)
            \/ Return(w)

SpecAnswer == InitAnswer /\ [][NextAnswer]_vars

\* A student starts and continues a session and submits, the expiry task and
\* the sweep run (handlers one at a time), and WebSocket clients connect, ping
\* and disconnect in between.
NextWs ==
    \/ Tick
    \/ \E c \in Conns : ConnStep(c)
    \/ \E w \in Workers :
         /\ OthersIdle(w)
         /\ \/ StartLoad(w, 1, 1)
            \/ SessionCreate(w)
            \/ TokenInvalidate(w)
            \/ TokenInsert(w)
            \/ \E token \in TokenInputs : ValidateToken(w, "submit", token, 1, 0, "")
            \/ \E fails \in BOOLEAN : SubmitStep(w, fails)
            \/ SubmitNotify(w)
            \/ \E sid \in scheduled : ExpiryTaskLoad(w, sid)
            \/ \E fails \in BOOLEAN : ExpiryTaskGrade(w, fails)
            \/ SweepLoad(w)
            \/ SweepNotify(w)
            \/ \E fails \in BOOLEAN : SweepGrade(w, fails)
            \/ Return(w)

SpecWs == Init /\ [][NextWs]_vars

\* SpecWs with the scheduling the servers give: every HTTP handler and task, and
\* every connect, runs to its end.  Clients need not ping or disconnect.
SpecWsFair ==
    /\ Init
    /\ [][NextWs]_vars
    /\ \A w \in Workers :
          /\ WF_vars(OthersIdle(w) /\ Continue(w))
          /\ WF_vars(OthersIdle(w) /\ \E fails \in BOOLEAN : SweepGrade(w, fails))
    /\ \A c \in Conns : WF_vars(ConnSubscribe(c))


\* A grading service grades one answer: every answer of AnswerInputs, by the
\* lexical grader and by the LLM grader.
NextGrader ==
    \/ \E service \in {"mock", "llm"}, answer \in AnswerInputs :
          GradeSubmission(service, <<answer>>)
    \/ \E similarity \in SimilarityInputs : MockGradeAnswer(similarity)
    \/ LlmGraderStep

SpecGrader == Init /\ [][NextGrader]_vars

\* The answers of the submissions the LLM grader is given whole
LlmAnswers ==
    {GradedAnswer("", "SHORT_ANSWER", FALSE, "cell wall", 1),
     GradedAnswer("go", "SHORT_ANSWER", FALSE, "cell wall", 1),
     GradedAnswer("[a, z]", "MULTIPLE_CHOICE", TRUE, "[a, b]", 1)}

RECURSIVE SeqsUpTo(_, _)
SeqsUpTo(S, n) ==
    IF n = 0 THEN {<<>>}
    ELSE LET shorter == SeqsUpTo(S, n - 1)
         IN  shorter \cup {Append(seq, x) : seq \in shorter, x \in S}

\* The LLM grader grades submissions of up to MaxAnswers answers.
NextLlmSubmission ==
    \/ \E submission \in SeqsUpTo(LlmAnswers, MaxAnswers) :
          GradeSubmission("llm", submission)
    \/ LlmGraderStep

SpecLlmSubmission == Init /\ [][NextLlmSubmission]_vars

\* Two students start sessions, one of them submits, the expiry tasks and the
\* sweep run (handlers one at a time, every grading succeeds), and a WebSocket
\* client connects in between.
NextExpiry ==
    \/ Tick
    \/ \E c \in Conns :
          \/ \E token \in TokenInputs, user \in Students : ConnCheck(c, token, user)
          \/ ConnSubscribe(c)
    \/ \E w \in Workers :
         /\ OthersIdle(w)
         /\ \/ \E student \in Students : StartLoad(w, student, 1)
            \/ SessionCreate(w)
            \/ TokenInvalidate(w)
            \/ TokenInsert(w)
            \/ \E token \in TokenInputs : ValidateToken(w, "submit", token, 1, 0, "")
            \/ SubmitStep(w, FALSE)
            \/ SubmitNotify(w)
            \/ \E sid \in scheduled : ExpiryTaskLoad(w, sid)
            \/ ExpiryTaskGrade(w, FALSE)
            \/ SweepLoad(w)
            \/ SweepNotify(w)
            \/ SweepGrade(w, FALSE)
            \/ Return(w)

SpecExpiry == Init /\ [][NextExpiry]_vars

\* Students start and continue sessions and the expiry tasks run (handlers one
\* at a time); the task queue may refuse a task.
NextBroker ==
    \/ Tick
    \/ \E w \in Workers :
         /\ OthersIdle(w)
         /\ \/ \E student \in Students : StartLoad(w, student, 1)
            \/ SessionCreate(w)
            \/ TokenInvalidate(w)
            \/ \E enqueued \in BOOLEAN : TokenInsertEnqueue(w, enqueued)
            \/ \E sid \in scheduled : ExpiryTaskLoad(w, sid)
            \/ \E fails \in BOOLEAN : ExpiryTaskGrade(w, fails)
            \/ Return(w)

SpecBroker == Init /\ [][NextBroker]_vars

\* No handler or task is running
AllIdle == \A w \in Workers : pc[w] = "idle"

\* Calls that take no time: the clock advances between the calls only.  Students
\* start and continue sessions, the three expiry tasks run, grading may fail.
NextAtomic ==
    \/ AllIdle /\ Tick
    \/ \E w \in Workers :
         /\ OthersIdle(w)
         /\ \/ \E student \in Students : StartLoad(w, student, 1)
            \/ SessionCreate(w)
            \/ TokenInvalidate(w)
            \/ TokenInsert(w)
            \/ \E sid \in scheduled : ExpiryTaskLoad(w, sid)
            \/ \E sid \in SessionIds : GradeExpiredSession(w, sid)
            \/ \E fails \in BOOLEAN : ExpiryTaskGrade(w, fails)
            \/ SweepLoad(w)
            \/ SweepNotify(w)
            \/ \E fails \in BOOLEAN : SweepGrade(w, fails)
            \/ Return(w)

SpecAtomic == Init /\ [][NextAtomic]_vars

\* Question validation.  data holds question_type, options (the option values),
\* expected_answer, allow_multiple and points.

\* The values of expected_answer as both validations decode them
expected_answers_of(expected_answer) ==
    IF json_loads(expected_answer).list
    THEN json_loads(expected_answer).items
    ELSE <<expected_answer>>

\* AdminQuestionSerializer.validate: TRUE when no ValidationError is raised
serializer_validate(data) ==
    /\ data.question_type = "MULTIPLE_CHOICE" =>
          /\ Cardinality(data.options) >= 2
          /\ data.expected_answer # "" =>
                LET expected_answers == expected_answers_of(data.expected_answer) IN
                /\ \A k \in 1..Len(expected_answers) :
                      expected_answers[k] \in data.options
                /\ ~(~data.allow_multiple /\ Len(expected_answers) > 1)
    /\ ~(data.allow_multiple /\ data.question_type # "MULTIPLE_CHOICE")

\* Question.clean, which save runs: TRUE when no ValidationError is raised
clean(data) ==
    /\ data.question_type = "MULTIPLE_CHOICE" =>
          /\ Cardinality(data.options) >= 2
          /\ data.expected_answer # "" =>
                LET expected_answers == expected_answers_of(data.expected_answer) IN
                \A k \in 1..Len(expected_answers) :
                    expected_answers[k] \in data.options
    /\ ~(data.allow_multiple /\ data.question_type # "MULTIPLE_CHOICE")

\* Single-select multiple-choice questions an admin may send
SingleSelectQuestions ==
    {[question_type |-> "MULTIPLE_CHOICE", options |-> {"a", "b"},
      expected_answer |-> expected, allow_multiple |-> FALSE, points |-> points] :
        expected \in {"", "a", "b", "z", "[a]", "[b]", "[a, b]", "[a, z]"},
        points \in QuestionPoints}

\* A question that passed validation is answered with answer_text
\* (submit_single_answer stores normalize_answer's text), and grade_session
\* hands the stored answer with the question's expected_answer to the grading
\* service
AnswerAndGrade(service, data, answer_text) ==
    /\ serializer_validate(data)
    /\ clean(data)
    /\ answer_text # ""
    /\ normalize_answer(data, answer_text).ok
    /\ GradeSubmission(service,
          <<GradedAnswer(normalize_answer(data, answer_text).text,
                         data.question_type, data.allow_multiple,
                         data.expected_answer, data.points)>>)

\* Validated single-select questions are answered and graded by either service
NextQuestion ==
    \/ \E service \in {"mock", "llm"}, data \in SingleSelectQuestions :
          \E answer_text \in {"a", "b", "[a]", "[b]"} :
              AnswerAndGrade(service, data, answer_text)
    \/ MockGradeAnswer(0)
    \/ LlmGradeDirect
    \/ GradeFinish
    \/ GradeReturn

SpecQuestion == Init /\ [][NextQuestion]_vars

---------------------------------------------------------------------------
\* Properties

TokensOf(sid) == {t \in TokenIds : tokens[t].session = sid}

StartInFlight(w) == pc[w] \in {"session_create", "token_invalidate", "token_insert"}

\* Worker w holds the response of a start call that returned a token
StartedOk(w) == pc[w] = "done" /\ resp[w].token # 0

\* Worker w holds the response of a start call that died on the unique constraint
StartCrashed(w) ==
    pc[w] = "done" /\ resp[w].status = 500 /\ resp[w].message = "IntegrityError"

\* Worker w holds the response to a request whose token validate_token rejected
Rejected(w) == pc[w] = "done" /\ loc[w].action = "token_rejected"

\* C1: every session has at most one SessionToken row with is_valid = true, in
\* every reachable state, also while start_or_continue_session calls on the same
\* session interleave their read / invalidate / insert steps.
C1_AtMostOneValidToken ==
    \A sid \in SessionIds : Cardinality(ValidTokens(sid)) <= 1

\* C2: every session has at most one GradeHistory row, whatever manual submits,
\* expiry tasks and sweeps ran, also concurrently.
C2_AtMostOneGradeHistory ==
    \A sid \in SessionIds : Cardinality(GradesOf(sid)) <= 1

\* C3: once a session is completed, no step changes any field of its row or any
\* of its StudentAnswer rows.
C3_CompletedIsTerminal ==
    [][\A sid \in SessionIds :
          sessions[sid].is_completed =>
              /\ sessions'[sid] = sessions[sid]
              /\ {a \in answers' : a.session = sid} = {a \in answers : a.session = sid}]_vars

\* C5: a session completed by an expiry path (its GradeHistory rows all have
\* grading_method 'timeout') has submission_type AUTO_EXPIRED, and one completed
\* by a manual submit (its rows all 'manual') has submission_type MANUAL.
C5_SubmissionTypeByPath ==
    \A sid \in SessionIds :
        (sessions[sid].is_completed /\ GradesOf(sid) # {}) =>
            /\ (\A g \in GradesOf(sid) : grades[g].grading_method = "timeout")
                   => sessions[sid].submission_type = "AUTO_EXPIRED"
            /\ (\A g \in GradesOf(sid) : grades[g].grading_method = "manual")
                   => sessions[sid].submission_type = "MANUAL"

\* C6: after k >= 1 start_or_continue_session calls made one after the other on
\* an active session, the tokens of the session that validate_token accepts are
\* exactly the token the last call returned (the newest token of the session): it
\* alone has is_valid = true, and every earlier token is rejected.
C6_LastTokenOnlyValid ==
    \A sid \in SessionIds :
        ( /\ \A w \in Workers : ~StartInFlight(w)
          /\ ~sessions[sid].is_completed
          /\ ~is_expired(sessions[sid])
          /\ TokensOf(sid) # {} ) =>
            LET last == SetMax(TokensOf(sid)) IN
            /\ {t \in TokensOf(sid) :
                   validate_token(t, sessions[sid].student) = "ok"} = {last}
            /\ ValidTokens(sid) = {last}
            /\ \A w \in Workers :
                   (StartedOk(w) /\ resp[w].token \in TokensOf(sid))
                       => resp[w].token = last

\* C6 witness: a continuing start call has just returned a token for a session
\* that is still active and holds an earlier token
C6_Witness ==
    \E sid \in SessionIds, w \in Workers :
        /\ StartedOk(w)
        /\ resp[w].status = 200
        /\ resp[w].token \in TokensOf(sid)
        /\ Cardinality(TokensOf(sid)) >= 2
        /\ ~sessions[sid].is_completed
        /\ ~is_expired(sessions[sid])

\* The five conditions of the claim, read off the tables
TokenAcceptable(token, student) ==
    /\ token \in TokenIds
    /\ sessions[tokens[token].session].student = student
    /\ tokens[token].is_valid
    /\ ~sessions[tokens[token].session].is_completed
    /\ ~(now > sessions[tokens[token].session].expires_at)

\* The step of worker w is the validate_token call of a session view
ValidateAccepted(w) == pc[w] = "idle" /\ pc'[w] \in Views
ValidateRejected(w) ==
    pc[w] = "idle" /\ pc'[w] = "done" /\ loc'[w].action = "token_rejected"

\* C8: validate_token(token, student) succeeds if and only if the token exists,
\* its session belongs to the student, the token is valid, and the session is
\* neither completed nor expired; in every other case the request is answered
\* with an error; and the call changes no table, nor the clock or the task queue.
C8_ValidateTokenIff ==
    [][ /\ \A token \in TokenInputs, student \in Students :
              (validate_token(token, student) = "ok")
                  <=> TokenAcceptable(token, student)
        /\ \A w \in Workers :
              ValidateAccepted(w) =>
                  /\ TokenAcceptable(loc'[w].token, loc'[w].user)
                  /\ UNCHANGED <<now, sessions, tokens, answers, grades, scheduled,
                                 exams, questions, conns,
                   error_log, grader>>
        /\ \A w \in Workers :
              ValidateRejected(w) =>
                  /\ resp'[w].status = 400
                  /\ \E token \in TokenInputs, student \in Students :
                        /\ ~TokenAcceptable(token, student)
                        /\ resp'[w].message = validate_token(token, student)
                  /\ UNCHANGED <<now, sessions, tokens, answers, grades, scheduled,
                                 exams, questions, conns,
                   error_log, grader>>
      ]_vars

\* C8 witness: one request was accepted and is in its view while another was
\* rejected because the token's session belongs to another user
C8_Witness ==
    \E v, w \in Workers :
        /\ pc[v] \in Views
        /\ Rejected(w)
        /\ resp[w].message = "Session does not belong to this user."

\* C9: the responses to requests whose token was rejected are the same whatever
\* the cause of the rejection.
C9_UniformRejection ==
    \A v, w \in Workers : (Rejected(v) /\ Rejected(w)) => resp[v] = resp[w]

\* C10: concurrent start_or_continue_session calls for one (student, exam)
\* serialize: none fails on the insert, one ExamSession row exists for the pair,
\* and of two calls that returned tokens of a session not yet completed, one
\* token (the later call's) is valid and the other is not.
C10_ConcurrentStartsSerialize ==
    /\ \A w \in Workers : ~StartCrashed(w)
    /\ \A i, j \in SessionIds :
          (sessions[i].student = sessions[j].student
             /\ sessions[i].exam = sessions[j].exam) => i = j
    /\ \A v, w \in Workers :
          ( /\ v # w
            /\ StartedOk(v) /\ StartedOk(w)
            /\ tokens[resp[v].token].session = tokens[resp[w].token].session
            /\ ~sessions[tokens[resp[v].token].session].is_completed ) =>
              tokens[resp[v].token].is_valid # tokens[resp[w].token].is_valid

\* C4: with the periodic check_expired_sessions sweep running fairly, every
\* session that is not completed and whose expires_at has passed is eventually
\* completed and has a GradeHistory, whether or not its one-shot expiry task
\* was delivered.
C4_SweepCompletesExpired ==
    \A sid \in 1..Cardinality(Students) :
        (sid \in SessionIds /\ ~sessions[sid].is_completed
            /\ sessions[sid].expires_at <= now)
          ~> (sid \in SessionIds /\ sessions[sid].is_completed
                /\ GradesOf(sid) # {})

\* C7: two grade_session calls in a row on one session object, with any grading
\* method, return the same GradeHistory id (so the second creates no row).
C7_GradeTwiceSameId ==
    \A w \in Workers :
        ( /\ pc[w] = "api_grade"
          /\ Len(loc[w].calls) = 2
          /\ loc[w].calls[1] # 0
          /\ loc[w].calls[2] # 0 ) => loc[w].calls[1] = loc[w].calls[2]

\* Worker w is about to run grade_session in a manual submit or in the one-shot
\* expiry task, and the grading raises
GradingFails(w) ==
    /\ pc[w] \in {"submit", "expiry_grade"}
    /\ grade_session(loc[w].session, loc[w].meth, TRUE).raised
    /\ (SubmitStep(w, TRUE) \/ ExpiryTaskGrade(w, TRUE))

\* C15: when grading fails after a manual submit or a timer expiry, the session
\* is completed all the same: is_completed is true, submitted_at is set and the
\* session has no valid token.
C15_CompletionSurvivesGradingFailure ==
    [][\A w \in Workers :
          GradingFails(w) =>
              LET sid == loc[w].session.id IN
              /\ sessions'[sid].is_completed
              /\ sessions'[sid].submitted_at >= 0
              /\ \A t \in TokenIds : tokens'[t].session = sid => ~tokens'[t].is_valid
      ]_vars

\* The session was completed by an expiry path and has its GradeHistory
AutoSubmitted(sid) ==
    /\ sessions[sid].is_completed
    /\ GradesOf(sid) # {}
    /\ \A g \in GradesOf(sid) : grades[g].grading_method = "timeout"

\* C16: a manual submit that arrives after the auto-submit committed is not
\* answered with an error (the call goes on to return the existing grade), and
\* it creates no GradeHistory.
C16_LateSubmitReturnsGrade ==
    [][\A w \in Workers, token \in TokenInputs :
          ( /\ token \in TokenIds
            /\ AutoSubmitted(tokens[token].session)
            /\ ValidateToken(w, "submit", token,
                             sessions[tokens[token].session].student, 0, "") ) =>
              /\ pc'[w] = "submit"
              /\ grades' = grades
      ]_vars

\* A session exists for the exam, or a grade is recorded for it
ExamInUse(exam_id) ==
    \/ \E i \in SessionIds : sessions[i].exam = exam_id
    \/ \E g \in GradeIds : sessions[grades[g].session_id].exam = exam_id

\* The exam a modifying admin request that passed its guard is about
AdminTarget(w) ==
    IF pc'[w] \in {"exam_save", "question_max"} THEN loc'[w].order
    ELSE questions[loc'[w].order].exam

\* C17: once an exam has a session (active, expired and not yet graded, or
\* completed) or a recorded grade, no admin request to modify the exam or its
\* questions passes the guard, and no step changes the exam or its questions.
C17_ExamImmutableOnceUsed ==
    [][ /\ \A w \in Workers :
              ( /\ pc[w] = "idle"
                /\ pc'[w] \in {"exam_save", "question_max", "question_save",
                                "question_delete"} ) => ~ExamInUse(AdminTarget(w))
        /\ \A e \in ExamIds :
              ExamInUse(e) =>
                  /\ exams'[e] = exams[e]
                  /\ \A i \in 1..Len(questions') :
                        questions'[i].exam = e =>
                            (i <= Len(questions) /\ questions'[i] = questions[i])
      ]_vars

\* C18: the orders of the questions of every exam are exactly 1..n, n the number
\* of its questions, after any sequence of admin creations and deletions.
C18_ContiguousQuestionOrder ==
    \A e \in ExamIds : QuestionOrders(e) = 1..Cardinality(QuestionsOf(e))

\* C18 witness: three questions were created in one exam, an earlier one was
\* deleted and the third now has order 2
C18_Witness ==
    /\ Len(questions) = 3
    /\ \A i \in 1..3 : questions[i].exam = questions[3].exam
    /\ \E i \in 1..2 : questions[i].deleted
    /\ ~questions[3].deleted
    /\ questions[3].order = 2

\* The step of worker w is a submit_single_answer call that succeeds
AnswerAccepted(w) ==
    pc[w] = "answer" /\ pc'[w] = "done" /\ resp'[w].status = 200

\* C19: after submit_single_answer(session, order, text) succeeds, fetching the
\* question returns normalize_answer(question, text) as saved_answer, and the
\* session has exactly one StudentAnswer for the question.
C19_SubmitThenFetch ==
    [][\A w \in Workers :
          /\ AnswerAccepted(w) =>
                LET sid == loc[w].session.id
                    question == get_question(loc[w].session.exam, loc[w].order)
                IN  /\ ~loc[w].session.is_completed /\ ~is_expired(loc[w].session)
                    /\ get_answer_for_question(answers', sid, loc[w].order)
                          = normalize_answer(questions[question], loc[w].text).text
                    /\ Cardinality({a \in answers' :
                          a.session = sid /\ a.question = question}) = 1
          /\ (pc[w] = "question" /\ resp'[w].status = 200) =>
                resp'[w].saved_answer
                    = get_answer_for_question(answers, loc[w].session.id, loc[w].order)
      ]_vars

\* C19 witness: the multi-select question holds an answer with two values,
\* stored in the normalized spelling, and a fetch has returned it
C19_Witness ==
    \E w \in Workers :
        /\ pc[w] = "done"
        /\ resp[w].message = "Question retrieved successfully"
        /\ resp[w].saved_answer = "[a, b]"
        /\ \E a \in answers : a.question = 3 /\ a.answer_text = "[a, b]"

\* The values a submitted text stands for: the items of a JSON array, else the text
SubmittedValues(text) ==
    IF text \in {"[]"} THEN <<>>
    ELSE IF text = "[a]" THEN <<"a">>
    ELSE IF text = "[a,a]" THEN <<"a", "a">>
    ELSE IF text = "[a,b]" THEN <<"a", "b">>
    ELSE IF text = "[a,z]" THEN <<"a", "z">>
    ELSE <<text>>

\* C20: a submit for a multiple-choice question is answered with a validation
\* error and creates or alters no StudentAnswer whenever a submitted value is not
\* an option value, or several values are submitted and allow_multiple is false.
C20_InvalidChoiceRejected ==
    [][\A w \in Workers :
          (pc[w] = "answer" /\ pc'[w] = "done") =>
              LET question == get_question(loc[w].session.exam, loc[w].order)
                  values == SubmittedValues(loc[w].text)
              IN  ( /\ question # 0
                    /\ questions[question].question_type = "MULTIPLE_CHOICE"
                    /\ \/ \E k \in 1..Len(values) :
                             values[k] \notin questions[question].options
                       \/ (Len(values) > 1 /\ ~questions[question].allow_multiple) ) =>
                      /\ resp'[w].status = 400
                      /\ answers' = answers
      ]_vars

\* C20 witness: a submit was rejected for a value that is no option while the
\* session already holds an answer to a multiple-choice question
C20_Witness ==
    \E w \in Workers :
        /\ pc[w] = "done"
        /\ resp[w].status = 400
        /\ resp[w].message = "Invalid answer"
        /\ \E a \in answers : questions[a.question].question_type = "MULTIPLE_CHOICE"

\* Connection c is open on a token that a rotation invalidated (the token is
\* not valid although its session is not completed)
OnRotatedToken(c) ==
    /\ conns[c].state = "open"
    /\ conns[c].subscribed
    /\ ~tokens[conns[c].token].is_valid
    /\ ~sessions[tokens[conns[c].token].session].is_completed

\* Connection c was sent the event e and then closed by the server, or the
\* client has closed it
ClosedAfter(c, e) ==
    /\ conns[c].state = "closed"
    /\ \/ conns[c].code = 1000
       \/ /\ conns[c].code = 4001
          /\ \E k \in 1..Len(conns[c].sent) : conns[c].sent[k] = e

\* C11: a connection subscribed to a token that start_or_continue_session
\* invalidated is sent session_expired with reason token_expired and is then
\* closed by the server (unless the client closes it first).
C11_RotationClosesConnections ==
    \A c \in Conns : OnRotatedToken(c) ~> ClosedAfter(c, TokenExpiredEvent)

\* An authenticated user presents a token of another user's session
ForeignToken(token, user) ==
    /\ user # 0
    /\ token \in TokenIds
    /\ sessions[tokens[token].session].student # user

\* C12: a connect by an authenticated user with a token of another user's
\* session ends closed with code 4003 and without a subscription, whatever the
\* state of the token and its session; a connect is closed with 4001 only for a
\* token that is not another user's.
C12_ForeignTokenClosed4003 ==
    [][\A c \in Conns :
          /\ \A token \in TokenInputs, user \in WsUsers :
                (ConnCheck(c, token, user) /\ ForeignToken(token, user)) =>
                    /\ ~conns'[c].subscribed
                    /\ \/ conns'[c].state = "checking"
                       \/ (conns'[c].state = "closed" /\ conns'[c].code = 4003)
          /\ (ConnSubscribe(c) /\ ForeignToken(conns[c].token, conns[c].user)) =>
                /\ ~conns'[c].subscribed
                /\ conns'[c].state = "closed"
                /\ conns'[c].code = 4003
      ]_vars

\* C13: a ping over a connection whose token is no longer valid is answered
\* with one terminal event (session_expired or session_completed) and the
\* connection is closed; a ping with a valid token is answered with pong and
\* the connection stays open.
C13_PingOnInvalidTokenCloses ==
    [][\A c \in Conns :
          ConnPing(c) =>
              IF check_token_validity(conns[c].token) = "ok"
              THEN /\ conns'[c].sent = Append(conns[c].sent, Event("pong", "none", 0))
                   /\ conns'[c].state = "open"
              ELSE /\ Len(conns'[c].sent) = Len(conns[c].sent) + 1
                   /\ conns'[c].sent[Len(conns'[c].sent)].type
                          \in {"session_expired", "session_completed"}
                   /\ conns'[c].state = "closed"
      ]_vars

\* The step publishes a session_completed event (manual submit or expiry path)
\* that reaches connection c
CompletedPublished(c) ==
    /\ Len(conns'[c].sent) = Len(conns[c].sent) + 1
    /\ conns'[c].sent[Len(conns'[c].sent)].type = "session_completed"
    /\ conns'[c].sent[Len(conns'[c].sent)].reason \in {"submitted", "timeout"}

\* C14: whenever a manual submit or an expiry path publishes session_completed,
\* no GradeHistory exists yet for the session and the event carries no
\* grade_history_id.
C14_CompletedPublishedBeforeGrading ==
    [][\A c \in Conns :
          CompletedPublished(c) =>
              /\ conns'[c].sent[Len(conns'[c].sent)].grade_history_id = 0
              /\ GradesOf(tokens[conns[c].token].session) = {}
      ]_vars

---------------------------------------------------------------------------
\* Properties of the grading services

\* The results a grading service has recorded so far
Graded == 1..Len(grader.results)

\* The set of values a multiple-choice text stands for: the members of a JSON
\* array, else the text itself
SelectedSet(text) ==
    IF text = "[]" THEN {}
    ELSE IF text \in {"[a]", "[a, a]"} THEN {"a"}
    ELSE IF text = "[a, b]" THEN {"a", "b"}
    ELSE IF text = "[a, z]" THEN {"a", "z"}
    ELSE IF text = "[a, b, c]" THEN {"a", "b", "c"}
    ELSE IF text = "[a, b, z]" THEN {"a", "b", "z"}
    ELSE {text}

\* Result k is that of the multiple-choice grader for a multi-select question
MultiSelectGraded(k) ==
    /\ grader.submission[k].question_type = "MULTIPLE_CHOICE"
    /\ grader.submission[k].allow_multiple
    /\ ~is_blank(grader.submission[k].answer_text)

\* C21: for a multi-select question with expected set E, n = |E| > 0, student
\* set S and points P the multiple-choice grader returns
\* round(max(0, (|S \cap E| / n) * P - (|S \ E| / n) * P), 2), and 0 for n = 0.
C21_MultiSelectScore ==
    \A k \in Graded :
        MultiSelectGraded(k) =>
            LET S == SelectedSet(grader.submission[k].answer_text)
                E == SelectedSet(grader.submission[k].expected_answer)
                P == grader.submission[k].points
                n == Cardinality(E)
            IN  grader.results[k].score =
                    IF n = 0 THEN 0
                    ELSE Round2(Max(0, Cardinality(S \cap E) * P
                                          - Cardinality(S \ E) * P), n)

\* A multi-select answer with right and wrong selections got part of the points
C21_Witness ==
    \E k \in Graded :
        /\ MultiSelectGraded(k)
        /\ SelectedSet(grader.submission[k].answer_text)
              \ SelectedSet(grader.submission[k].expected_answer) # {}
        /\ grader.results[k].score > 0
        /\ grader.results[k].score < 100 * grader.submission[k].points

\* C22: every result of a grader (multiple-choice, lexical or LLM, also for an
\* LLM reply whose score is negative or above the maximum) has a score of at
\* least 0 and at most the points of the question.
C22_ScoreWithinPoints ==
    \A k \in Graded :
        /\ grader.results[k].score >= 0
        /\ grader.results[k].score <= 100 * grader.submission[k].points

\* The LLM grader returned a result for a reply whose score was out of range
C22_Witness ==
    \E k \in Graded :
        /\ grader.service = "llm"
        /\ ~grader.results[k].raised
        /\ grader.results[k].reply.kind \in {"json", "text"}
        /\ \/ grader.results[k].reply.score < 0
           \/ grader.results[k].reply.score > 1000 * grader.submission[k].points

\* The completion call of the step gave a reply that passes the validation
ValidReply(reply) ==
    /\ reply.kind # "api_error"
    /\ validate_llm_response(reply, CurrentAnswer.points)

\* C23: the LLM grade_answer makes at most max_retries = 3 completion calls for
\* an answer, returns on the first reply that passes the validation, and raises
\* GradingError when all three attempts fail, be it by an API error or by the
\* validation of the response.
C23_ThreeFailuresRaise ==
    [][\A points \in QuestionPoints : \A reply \in LlmReplies(points) :
          LlmAttempt(reply) =>
              /\ grader.attempt <= max_retries
              /\ IF ValidReply(reply)
                 THEN /\ Len(grader'.results) = Len(grader.results) + 1
                      /\ ~grader'.results[Len(grader'.results)].raised
                      /\ grader'.results[Len(grader'.results)].calls = grader.attempt
                 ELSE IF grader.attempt < max_retries
                 THEN grader'.results = grader.results
                 ELSE /\ Len(grader'.results) = Len(grader.results) + 1
                      /\ grader'.results[Len(grader'.results)].raised
      ]_vars

\* What the LLM grade_answer returns for answer k when it does not raise
LlmReturned(k) ==
    LET answer == grader.submission[k] IN
    IF is_blank(answer.answer_text)
    THEN GradingResult(0, "No answer provided.")
    ELSE IF answer.question_type = "MULTIPLE_CHOICE"
    THEN grade_multiple_choice(answer.answer_text, answer.expected_answer,
                               answer.points, answer.allow_multiple)
    ELSE [parse_llm_response(grader.results[k].reply, answer.points) EXCEPT
             !.calls = grader.results[k].calls, !.reply = grader.results[k].reply]

\* C24: in the LLM grading of a submission an exception while grading one answer
\* does not abort the submission: that answer is recorded with score 0 and a
\* feedback starting with 'Grading error:', every other answer is graded as it
\* is without the failure, and the status of the result is GRADED.
C24_AnswerErrorDoesNotAbort ==
    grader.service = "llm" =>
        /\ \A k \in Graded :
              IF grader.results[k].raised
              THEN /\ grader.results[k].score = 0
                   /\ grader.results[k].feedback = GradingErrorFeedback
              ELSE grader.results[k] = LlmReturned(k)
        /\ grader.state = "done" =>
              /\ Len(grader.results) = Len(grader.submission)
              /\ grader.status = "GRADED"
              /\ grader.total_score = SumScores(grader.results)

\* A submission was graded whose first answer failed and whose second answer
\* got points
C24_Witness ==
    /\ grader.service = "llm"
    /\ grader.state = "done"
    /\ Len(grader.results) >= 2
    /\ grader.results[1].raised
    /\ ~grader.results[2].raised
    /\ grader.results[2].score > 0

\* Result k is that of the lexical grader for a text it compared
LexicallyGraded(k) ==
    /\ grader.service = "mock"
    /\ grader.submission[k].question_type # "MULTIPLE_CHOICE"
    /\ ~is_blank(grader.submission[k].answer_text)

\* 0.4 * keyword + 0.6 * similarity of result k, a rational number
CombinedOf(k) ==
    combined_score(grader.submission[k].answer_text,
                   grader.submission[k].expected_answer,
                   grader.results[k].reply.score)

\* C25: the lexical grader returns score 0 with the feedback 'Answer does not
\* meet the expected criteria.' whenever the combined score
\* 0.4 * keyword + 0.6 * similarity is below the similarity threshold, and
\* round(combined * points, 2) otherwise.
C25_LexicalThreshold ==
    \A k \in Graded :
        LexicallyGraded(k) =>
            IF Below(CombinedOf(k), similarity_threshold)
            THEN /\ grader.results[k].score = 0
                 /\ grader.results[k].feedback
                       = "Answer does not meet the expected criteria."
            ELSE grader.results[k].score
                    = Round2(CombinedOf(k).num * grader.submission[k].points,
                             CombinedOf(k).den)

\* The lexical grader gave 0 for a combined score that is positive and below the
\* threshold
C25_Witness ==
    \E k \in Graded :
        /\ LexicallyGraded(k)
        /\ CombinedOf(k).num > 0
        /\ Below(CombinedOf(k), similarity_threshold)
        /\ grader.results[k].score = 0

---------------------------------------------------------------------------
\* Properties of completion, failure and the expiry tasks

\* C26: in every reachable state a completed session has no token with
\* is_valid = true, also when a start_or_continue_session call for the session
\* runs at the same time as the completion.
C26_CompletedHasNoValidToken ==
    \A sid \in SessionIds : sessions[sid].is_completed => ValidTokens(sid) = {}

\* C27: when the grading of a session raises an unhandled error, a GradeHistory
\* row of the session with status FAILED exists afterwards (and the caller gets
\* GradingError, which the error log records).
C27_FailedGradeHistoryKept ==
    \A sid \in error_log : \E g \in GradesOf(sid) : grades[g].status = "FAILED"

\* C28: after a grading attempt for a session has failed no component runs the
\* grading of that session again by itself; a later check_expired_sessions sweep
\* does not take the session up.
C28_NoAutomaticRegrade ==
    \A w \in Workers :
        pc[w] \in {"sweep", "sweep_grade"} =>
            \A k \in 1..Len(loc[w].queue) : loc[w].queue[k].id \notin error_log

\* No GradeHistory of session sid is created, no field of the session and none
\* of its tokens changes, and no connection on one of its tokens is sent an event
Untouched(sid) ==
    /\ sessions'[sid] = sessions[sid]
    /\ {g \in 1..Len(grades') : grades'[g].session_id = sid} = GradesOf(sid)
    /\ {t \in 1..Len(tokens') : tokens'[t].session = sid} = TokensOf(sid)
    /\ \A t \in TokensOf(sid) : tokens'[t] = tokens[t]
    /\ \A c \in Conns :
          (conns[c].token \in TokensOf(sid)) => conns'[c] = conns[c]

\* C29: schedule_session_expiry run for a session that is already completed
\* returns at once, and it and every step of check_expired_sessions leave a
\* completed session as it is: no GradeHistory is created, no session field and
\* no token changes, and no session_completed event is published.
C29_TasksSkipCompleted ==
    [][\A w \in Workers :
          /\ \A sid \in SessionIds :
                (sessions[sid].is_completed /\ ExpiryTaskLoad(w, sid)) =>
                    (pc'[w] = "idle" /\ Untouched(sid))
          /\ (SweepLoad(w) \/ SweepNotify(w) \/ \E fails \in BOOLEAN : SweepGrade(w, fails)) =>
                \A sid \in SessionIds : sessions[sid].is_completed => Untouched(sid)
      ]_vars

\* The expiry task of a completed session has run before the session's expires_at
\* (the task is no longer pending), and a sweep is grading another session
C29_Witness ==
    \E sid \in SessionIds :
        /\ sessions[sid].is_completed
        /\ sid \notin scheduled
        /\ now < sessions[sid].expires_at
        /\ \E w \in Workers : pc[w] = "sweep_grade" /\ Head(loc[w].queue).id # sid

\* C30: schedule_session_expiry run for a session that is not completed and for
\* which is_expired() is false (at any instant up to and including expires_at)
\* leaves the session uncompleted and enqueues itself again for expires_at.
C30_EarlyExpiryTaskReschedules ==
    [][\A w \in Workers, sid \in SessionIds :
          ( /\ ~sessions[sid].is_completed
            /\ ~is_expired(sessions[sid])
            /\ ExpiryTaskLoad(w, sid) ) =>
              /\ ~sessions'[sid].is_completed
              /\ sid \in scheduled'
      ]_vars

---------------------------------------------------------------------------
\* Properties of start, normalization and the expiry paths

\* The start call of student for exam_id fails: the exam is missing or inactive,
\* or the student's session for it is completed
StartFails(student, exam_id) ==
    \/ exam_id \notin ActiveExams
    \/ get_active_session(student, exam_id).is_completed

\* C31: a start_or_continue_session call that fails because the exam is inactive
\* or missing, or because the student's session for the exam is completed,
\* creates no session and no token, invalidates no token, publishes no event and
\* schedules no task.
C31_FailedStartChangesNothing ==
    [][\A w \in Workers, student \in Students, exam_id \in ExamIds :
          (StartFails(student, exam_id) /\ StartLoad(w, student, exam_id)) =>
              /\ pc'[w] = "done"
              /\ resp'[w].status \in {400, 404}
              /\ UNCHANGED <<sessions, tokens, conns, scheduled>>
      ]_vars

\* A start call was refused because the student's session is completed
C31_Witness ==
    /\ \E w \in Workers :
          /\ pc[w] = "done"
          /\ resp[w].message = "You have already completed this exam."
    /\ \E sid \in SessionIds : sessions[sid].is_completed

\* C32: every session created by start_or_continue_session gets exactly one
\* schedule_session_expiry task enqueued (it had none before, and has one when
\* the call ends); continuing a session enqueues no further task.
C32_OneExpiryTaskPerSession ==
    [][\A w \in Workers :
          (\E enqueued \in BOOLEAN : TokenInsertEnqueue(w, enqueued)) =>
              IF loc[w].action = "started"
              THEN /\ loc[w].session.id \notin scheduled
                   /\ scheduled' = scheduled \cup {loc[w].session.id}
              ELSE scheduled' = scheduled
      ]_vars

\* A sequence holds no value twice
NoDuplicates(items) ==
    \A i, j \in 1..Len(items) : items[i] = items[j] => i = j

\* C33: for a multi-select question, a submitted JSON array of option values is
\* rejected when it is empty, stored as the plain value when it reduces to one
\* distinct value, and stored as a JSON array without duplicates when it holds
\* several distinct values.
C33_MultiSelectNormalized ==
    [][\A w \in Workers :
          (pc[w] = "answer" /\ pc'[w] = "done") =>
              LET question == get_question(loc[w].session.exam, loc[w].order)
                  decoded == json_loads(loc[w].text)
                  values == ToSet(decoded.items)
              IN  ( /\ question # 0
                    /\ questions[question].question_type = "MULTIPLE_CHOICE"
                    /\ questions[question].allow_multiple
                    /\ decoded.list
                    /\ values \subseteq questions[question].options
                    /\ ~loc[w].session.is_completed
                    /\ ~is_expired(loc[w].session) ) =>
                      IF values = {}
                      THEN resp'[w].status = 400 /\ answers' = answers
                      ELSE /\ resp'[w].status = 200
                           /\ LET stored == resp'[w].saved_answer IN
                              IF Cardinality(values) = 1
                              THEN stored \in values
                              ELSE /\ json_loads(stored).list
                                   /\ ToSet(json_loads(stored).items) = values
                                   /\ NoDuplicates(json_loads(stored).items)
      ]_vars

\* C34: every token a successful start_or_continue_session returns is accepted
\* by validate_token for the same student at the instant the call returns.
C34_StartTokenValid ==
    [][\A w \in Workers, student \in Students, token \in TokenInputs :
          ( /\ pc[w] = "token_insert" /\ pc'[w] = "done"
            /\ loc[w].session.student = student
            /\ resp'[w].token = token ) =>
              (validate_token(token, student) = "ok")'
      ]_vars

\* C35: when an expiry path (expiry task, sweep, grade_expired_session) has sent
\* session_completed for a session, the session has is_completed = TRUE when the
\* path is through with the session, also when the grading failed; a manual
\* submit answering 200 has sent the event for a completed session.
C35_PublishedImpliesCompleted ==
    [][\A w \in Workers :
          /\ (pc[w] = "expiry_grade" /\ pc'[w] # "expiry_grade"
                /\ ValidTokens(loc[w].session.id) # {}) =>
                   sessions'[loc[w].session.id].is_completed
          /\ (pc[w] = "sweep_grade" /\ pc'[w] # "sweep_grade"
                /\ ValidTokens(Head(loc[w].queue).id) # {}) =>
                   sessions'[Head(loc[w].queue).id].is_completed
          /\ (pc[w] = "submit_notify" /\ pc'[w] = "done") =>
                   sessions'[loc[w].session.id].is_completed
      ]_vars

\* C36: check_expired_sessions never selects a session while validate_token
\* still accepts a token of that session for its student (in particular at
\* now = expires_at).
C36_SweepAndTokenCheckAgree ==
    [][\A w \in Workers :
          SweepLoad(w) =>
              \A sid \in ExpiredSessions, token \in TokenIds :
                  tokens[token].session = sid =>
                      validate_token(token, sessions[sid].student) # "ok"
      ]_vars

\* C37: no expiry path (schedule_session_expiry, check_expired_sessions,
\* grade_expired_session) completes or grades a session while now < expires_at.
C37_NoExpiryBeforeDeadline ==
    [][\A w \in Workers, sid \in SessionIds :
          ( /\ pc[w] \in {"expiry_grade", "sweep_grade"}
            /\ pc'[w] # pc[w]
            /\ \/ ~sessions[sid].is_completed /\ sessions'[sid].is_completed
               \/ \E g \in 1..Len(grades') :
                     g > Len(grades) /\ grades'[g].session_id = sid ) =>
              now >= sessions[sid].expires_at
      ]_vars

\* C38: within one sweep, a grading failure for one selected session does not
\* keep the other selected sessions from being completed and graded: when the
\* sweep ends, no selected session is left that the sweep did not handle.
C38_SweepSurvivesFailure ==
    [][\A w \in Workers :
          (pc[w] = "sweep_grade" /\ pc'[w] = "idle") =>
              \A k \in 2..Len(loc[w].queue) :
                  sessions'[loc[w].queue[k].id].is_completed
      ]_vars

\* Connection c is between its validity check and its group subscription, and
\* its token has been invalidated or its session completed since the check
InvalidatedWhileConnecting(c) ==
    /\ conns[c].state = "checking"
    /\ \/ ~tokens[conns[c].token].is_valid
       \/ sessions[tokens[conns[c].token].session].is_completed

\* Connection c has been sent session_expired or session_completed, or is closed
TerminalEventOrClosed(c) ==
    \/ conns[c].state = "closed"
    \/ \E k \in 1..Len(conns[c].sent) :
          conns[c].sent[k].type \in {"session_expired", "session_completed"}

\* C39: a connection whose token is invalidated (by rotation or completion)
\* between the validity check and the group subscription of connect is still
\* sent a terminal event or closed, without the client having to ping.
C39_InvalidatedWhileConnectingIsTold ==
    \A c \in Conns : InvalidatedWhileConnecting(c) ~> TerminalEventOrClosed(c)

\* The option value a single-select question expects
ExpectedValue(expected_answer) == expected_answers_of(expected_answer)[1]

\* C40: for every single-select multiple-choice question that question
\* validation accepts, also one whose expected_answer is a one-element JSON
\* array, an answer equal to the expected option value is accepted by
\* submit_single_answer and graded with the full points of the question.
C40_SingleSelectFullPoints ==
    /\ \A data \in SingleSelectQuestions :
          (serializer_validate(data) /\ clean(data) /\ data.expected_answer # "") =>
              normalize_answer(data, ExpectedValue(data.expected_answer)).ok
    /\ \A k \in Graded :
          ( /\ grader.submission[k].question_type = "MULTIPLE_CHOICE"
            /\ ~grader.submission[k].allow_multiple
            /\ grader.submission[k].expected_answer # ""
            /\ grader.submission[k].answer_text
                  = ExpectedValue(grader.submission[k].expected_answer) ) =>
              grader.results[k].score = 100 * grader.submission[k].points

====
